---- MODULE Spec2Model ----
(***************************************************************************)
(* Execution model of the code emitted by LlvmFunctionBuilder              *)
(* (Python/ll_compile.cc): the value stack kept in the frame, the          *)
(* reference counts of the objects, the fast locals, the shared return     *)
(* slot and the unified return block.  Every lowering rule is an operator  *)
(* from machine state to machine state; the results of the runtime entry   *)
(* points are inputs drawn from bounded sets.  The module also holds the   *)
(* basic blocks the builder emits, the layout registry (TypeBuilder        *)
(* caches) and TableGen's StringToOffsetTable.                             *)
(***************************************************************************)
EXTENDS Integers, Sequences, FiniteSets, TLC

\* ------------------------------------------------------------------ bounds
NumObjs == 4       \* objects 1..NumObjs (1 and 2 are True and False)
MaxStack == 6      \* co_stacksize: slots of the frame's value stack
NumLocals == 2     \* fast-local slots
NumConsts == 1     \* entries of co_consts
MaxSteps == 1      \* opcodes run before the frame is abandoned (free mode)
NumNames == 1      \* entries of co_names
NumCells == 1      \* cells of the frame
MaxSize == 2       \* largest operand of BUILD_LIST/BUILD_TUPLE/UNPACK_SEQUENCE
MaxArgs == 1       \* largest operand of CALL_FUNCTION
StackOps == 4      \* Push/Pop operations applied to a stack
RefOps == 3        \* IncRef/DecRef/XDecRef operations applied
MaxRef == 1        \* largest reference count an object starts with
MaxUnder == 1      \* slots below the stack bottom the stack pointer may reach
NumThreads == 2    \* threads that update reference counts
MaxUpdates == 3    \* reference-count updates started, all threads together

\* --------------------------------------------------------------- encodings
Null == 0          \* Constant::getNullValue(PyObject*)
Uninit == -1       \* content of an alloca before the first store
PyTrue == 1        \* &_Py_TrueStruct
PyFalse == 2       \* &_Py_ZeroStruct
PyNone == 500      \* &_Py_NoneStruct, which no rule counts references of
StackBottom == 0   \* frame->f_valuestack, as a slot index

ExcRef == 400      \* a non-null PyObject* returned by PyErr_Occurred

Objects == 1..NumObjs
StatusVals == {-1, 0}       \* int results: 0 on success, -1 on failure
TruthVals == {-1, 0, 1}     \* int results of the three-way tests
IsTrueVals == {-2, -1, 0, 1, 2}   \* PyObject_IsTrue: negative, zero, positive
UnpackVals == {0, 1}        \* _PyEval_UnpackIterable: 1 on success
NameIdx == 0..(NumNames - 1)
CellIdx == 0..(NumCells - 1)
Val == Objects \cup {Null}
\* What an entry point that returns an object is taken to return: null, or
\* an object that the frame may or may not already hold.
Results == {Null, NumObjs - 1}
\* The objects an unpacked iterable yields.
Items == {NumObjs - 1, NumObjs}
Slots == 0..(MaxStack - 1)
LocalIdx == 0..(NumLocals - 1)

VARIABLES
    mem,        \* value-stack storage of the frame: slot index -> Val
    sp,         \* content of stack_pointer_addr_, as a slot index
    locals,     \* f_localsplus: local index -> Val
    refcnt,     \* ob_refcnt of every object
    reftotal,   \* _Py_RefTotal, relative to its value at entry
    refdebug,   \* whether the build defines Py_REF_DEBUG
    retval,     \* content of retval_addr_
    pc,         \* "run" | "return_block" | "done"
    returned,   \* value returned by do_return
    trace,      \* what the current rule (and the return block after it) did
    lastOp,     \* opcode and operand of the rule run last
    nsteps,     \* number of rules run
    code,       \* the bytecode the driver walks; <<>>: any opcode may come
    ip,         \* index in code of the next instruction
    entry,      \* the frame as it was when the function was entered
    blocks,     \* basic blocks of the function being built, in creation order
    cur,        \* the builder's insertion block, as an index in blocks
    StringOffset,     \* StringToOffsetTable: the StringMap, key -> offset
    AggregateString,  \* StringToOffsetTable: the concatenated strings
    typeNames,  \* the type symbol table of every llvm::Module
    threads     \* per thread: where it is in a reference-count update and
                \* the values orig and new_ it holds

vars == <<mem, sp, locals, refcnt, reftotal, refdebug, retval, pc, returned,
          trace, lastOp, nsteps, code, ip, entry, blocks, cur,
          StringOffset, AggregateString, typeNames, threads>>

\* The machine state as one record, so that the emitted instruction
\* sequences compose as functions.  top is the Value* returned by Pop(), flag
\* the i1 a helper returns, br the successor the rule's last branch chose,
\* tmp the temporary stack-pointer slot of CALL_FUNCTION.
State ==
    [mem |-> mem, sp |-> sp, locals |-> locals, refcnt |-> refcnt,
     reftotal |-> reftotal, refdebug |-> refdebug, retval |-> retval,
     pc |-> pc, trace |-> trace, top |-> Null, flag |-> FALSE,
     br |-> "next", tmp |-> 0]

Apply(m) ==
    /\ mem' = m.mem
    /\ sp' = m.sp
    /\ locals' = m.locals
    /\ refcnt' = m.refcnt
    /\ reftotal' = m.reftotal
    /\ refdebug' = m.refdebug
    /\ retval' = m.retval
    /\ pc' = m.pc
    /\ trace' = m.trace

Ev(m, e) == [m EXCEPT !.trace = Append(@, e)]

\* ------------------------------------------------------------ small helpers
IsNull(v) == v = Null
IsNonZero(v) == v # 0

increment_and_get(orig, delta) == orig + delta

\* --------------------------------------------------- reference-count manager
\* An IncRef that leaves _Py_RefTotal alone.
IncRef_skips_total(m, v) ==
    Ev([m EXCEPT !.refcnt[v] = increment_and_get(@, 1)],
       [k |-> "incref", v |-> v])

IncRef(m, v) ==
    LET m1 == IF m.refdebug
              THEN [m EXCEPT !.reftotal = increment_and_get(@, 1)]
              ELSE m
    IN  Ev([m1 EXCEPT !.refcnt[v] = increment_and_get(@, 1)],
           [k |-> "incref", v |-> v])

\* A DecRef that tests the count it loaded instead of the decremented one.
DecRef_tests_old(m, v) ==
    LET m1 == IF m.refdebug
              THEN [m EXCEPT !.reftotal = increment_and_get(@, -1)]
              ELSE m
        new_refcnt == increment_and_get(m1.refcnt[v], -1)
        m2 == Ev([m1 EXCEPT !.refcnt[v] = new_refcnt],
                 [k |-> "decref", v |-> v])
    IN  IF IsNonZero(m1.refcnt[v])
        THEN IF m.refdebug /\ new_refcnt < 0
             THEN Ev(m2, [k |-> "negative_refcount", v |-> v])
             ELSE m2
        ELSE Ev(m2, [k |-> "dealloc", v |-> v])

DecRef(m, v) ==
    LET m1 == IF m.refdebug
              THEN [m EXCEPT !.reftotal = increment_and_get(@, -1)]
              ELSE m
        new_refcnt == increment_and_get(m1.refcnt[v], -1)
        m2 == Ev([m1 EXCEPT !.refcnt[v] = new_refcnt],
                 [k |-> "decref", v |-> v])
    IN  IF IsNonZero(new_refcnt)
        THEN IF m.refdebug /\ new_refcnt < 0
             THEN Ev(m2, [k |-> "negative_refcount", v |-> v])
             ELSE m2
        ELSE Ev(m2, [k |-> "dealloc", v |-> v])

XDecRef(m, v) ==
    LET m1 == Ev(m, [k |-> "xdecref", v |-> v])
    IN  IF IsNull(v) THEN m1 ELSE DecRef(m1, v)

\* -------------------------------------------------------- value stack
\* A Push that advances the stack pointer before it stores.
Push_advances_first(m, v) ==
    LET stack_pointer == m.sp
        new_stack_pointer == stack_pointer + 1
    IN  Ev([m EXCEPT !.mem[new_stack_pointer] = v, !.sp = new_stack_pointer],
           [k |-> "push", v |-> v, at |-> new_stack_pointer])

Push(m, v) ==
    LET stack_pointer == m.sp
        new_stack_pointer == stack_pointer + 1
    IN  Ev([m EXCEPT !.mem[stack_pointer] = v, !.sp = new_stack_pointer],
           [k |-> "push", v |-> v, at |-> stack_pointer])

Pop(m) ==
    LET stack_pointer == m.sp
        new_stack_pointer == stack_pointer - 1
        former_top == m.mem[new_stack_pointer]
    IN  Ev([m EXCEPT !.sp = new_stack_pointer, !.top = former_top],
           [k |-> "pop", v |-> former_top, at |-> new_stack_pointer])

\* A SetLocal that releases the value it stores instead of the old one.
SetLocal_releases_new(m, locals_index, new_value) ==
    LET m1 == Ev([m EXCEPT !.locals[locals_index] = new_value],
                 [k |-> "setlocal", v |-> new_value])
    IN  XDecRef(m1, new_value)

\* A SetLocal that releases the previous occupant while the slot still
\* holds it.
SetLocal_releases_first(m, locals_index, new_value) ==
    LET orig_value == m.locals[locals_index]
        m1 == XDecRef(m, orig_value)
    IN  Ev([m1 EXCEPT !.locals[locals_index] = new_value],
           [k |-> "setlocal", v |-> new_value])

SetLocal(m, locals_index, new_value) ==
    LET orig_value == m.locals[locals_index]
        m1 == Ev([m EXCEPT !.locals[locals_index] = new_value],
                 [k |-> "setlocal", v |-> new_value])
    IN  XDecRef(m1, orig_value)

\* -------------------------------------------------------- unified return
Return(m, v) ==
    Ev([m EXCEPT !.retval = v, !.pc = "return_block"],
       [k |-> "ret", v |-> v, at |-> m.sp])

\* ------------------------------------------------------ runtime entry points
\* A call of an entry point that returns int or void.
Call(m, f, args, result) ==
    Ev(m, [k |-> "call", f |-> f, args |-> args, res |-> result])

\* A call of an entry point that returns a new reference (or null): the
\* runtime has taken the reference the caller now owns.
CallNewRef(m, f, args, result) ==
    LET m1 == Call(m, f, args, result)
    IN  IF IsNull(result) THEN m1
        ELSE [m1 EXCEPT !.refcnt[result] = @ + 1,
                        !.reftotal = IF m.refdebug THEN @ + 1 ELSE @]

\* code->co_consts of the function that is run
co_consts == [i \in 0..(NumConsts - 1) |-> NumObjs - (i % 2)]
ConstIdx == DOMAIN co_consts

\* ------------------------------------------------------------ lowering rules
\* A LOAD_CONST that pushes the constant without acquiring it.
LOAD_CONST_borrows(m, index) ==
    LET const_ == co_consts[index]
    IN  Push(m, const_)

LOAD_CONST(m, index) ==
    LET const_ == co_consts[index]
    IN  Push(IncRef(m, const_), const_)

\* A load that pushes the local without acquiring it.
LOAD_FAST_borrows(m, index) ==
    LET local == m.locals[index]
    IN  IF IsNull(local)
        THEN Return(Call(m, "_PyEval_RaiseForUnboundLocal",
                         <<"frame_", index>>, 0), Null)
        ELSE Push(m, local)

LOAD_FAST(m, index) ==
    LET local == m.locals[index]
    IN  IF IsNull(local)
        THEN Return(Call(m, "_PyEval_RaiseForUnboundLocal",
                         <<"frame_", index>>, 0), Null)
        ELSE Push(IncRef(m, local), local)

STORE_FAST(m, index) ==
    LET m1 == Pop(m)
    IN  SetLocal(m1, index, m1.top)

DELETE_FAST(m, index) == SetLocal(m, index, Null)

\* A RETURN_VALUE that reads the top of the stack without popping it.
RETURN_VALUE_peeks(m) ==
    LET retval_ == m.mem[m.sp - 1]
    IN  Return(m, retval_)

RETURN_VALUE(m) ==
    LET m1 == Pop(m)
        retval_ == m1.top
    IN  Return(m1, retval_)

\* A binary operation that omits the null test.
GenericBinOp_unchecked(m, apifunc, result) ==
    LET m1 == Pop(m)
        rhs == m1.top
        m2 == Pop(m1)
        lhs == m2.top
        m3 == CallNewRef(m2, apifunc, <<lhs, rhs>>, result)
        m4 == DecRef(m3, lhs)
        m5 == DecRef(m4, rhs)
    IN  Push(m5, result)

GenericBinOp(m, apifunc, result) ==
    LET m1 == Pop(m)
        rhs == m1.top
        m2 == Pop(m1)
        lhs == m2.top
        m3 == CallNewRef(m2, apifunc, <<lhs, rhs>>, result)
        m4 == DecRef(m3, lhs)
        m5 == DecRef(m4, rhs)
    IN  IF IsNull(result) THEN Return(m5, Null) ELSE Push(m5, result)

BINOP_METH ==
    [BINARY_ADD |-> "PyNumber_Add",
     BINARY_SUBTRACT |-> "PyNumber_Subtract",
     BINARY_MULTIPLY |-> "PyNumber_Multiply",
     BINARY_TRUE_DIVIDE |-> "PyNumber_TrueDivide",
     BINARY_DIVIDE |-> "PyNumber_Divide",
     BINARY_MODULO |-> "PyNumber_Remainder",
     BINARY_LSHIFT |-> "PyNumber_Lshift",
     BINARY_RSHIFT |-> "PyNumber_Rshift",
     BINARY_OR |-> "PyNumber_Or",
     BINARY_XOR |-> "PyNumber_Xor",
     BINARY_AND |-> "PyNumber_And",
     BINARY_FLOOR_DIVIDE |-> "PyNumber_FloorDivide",
     BINARY_SUBSCR |-> "PyObject_GetItem",
     INPLACE_ADD |-> "PyNumber_InPlaceAdd",
     INPLACE_SUBTRACT |-> "PyNumber_InPlaceSubtract",
     INPLACE_MULTIPLY |-> "PyNumber_InPlaceMultiply",
     INPLACE_TRUE_DIVIDE |-> "PyNumber_InPlaceTrueDivide",
     INPLACE_DIVIDE |-> "PyNumber_InPlaceDivide",
     INPLACE_MODULO |-> "PyNumber_InPlaceRemainder",
     INPLACE_LSHIFT |-> "PyNumber_InPlaceLshift",
     INPLACE_RSHIFT |-> "PyNumber_InPlaceRshift",
     INPLACE_OR |-> "PyNumber_InPlaceOr",
     INPLACE_XOR |-> "PyNumber_InPlaceXor",
     INPLACE_AND |-> "PyNumber_InPlaceAnd",
     INPLACE_FLOOR_DIVIDE |-> "PyNumber_InPlaceFloorDivide"]

\* A power operation that hands its operands over in popping order.
GenericPowOp_swapped(m, apifunc, result) ==
    LET m1 == Pop(m)
        rhs == m1.top
        m2 == Pop(m1)
        lhs == m2.top
        pynone == PyNone
        m3 == CallNewRef(m2, apifunc, <<rhs, lhs, pynone>>, result)
        m4 == DecRef(m3, lhs)
        m5 == DecRef(m4, rhs)
    IN  IF IsNull(result) THEN Return(m5, Null) ELSE Push(m5, result)

GenericPowOp(m, apifunc, result) ==
    LET m1 == Pop(m)
        rhs == m1.top
        m2 == Pop(m1)
        lhs == m2.top
        pynone == PyNone
        m3 == CallNewRef(m2, apifunc, <<lhs, rhs, pynone>>, result)
        m4 == DecRef(m3, lhs)
        m5 == DecRef(m4, rhs)
    IN  IF IsNull(result) THEN Return(m5, Null) ELSE Push(m5, result)

POW_METH ==
    [BINARY_POWER |-> "PyNumber_Power",
     INPLACE_POWER |-> "PyNumber_InPlacePower"]

GenericUnaryOp(m, apifunc, result) ==
    LET m1 == Pop(m)
        value == m1.top
        m2 == CallNewRef(m1, apifunc, <<value>>, result)
        m3 == DecRef(m2, value)
    IN  IF IsNull(result) THEN Return(m3, Null) ELSE Push(m3, result)

UNARYOP_METH ==
    [UNARY_CONVERT |-> "PyObject_Repr",
     UNARY_INVERT |-> "PyNumber_Invert",
     UNARY_POSITIVE |-> "PyNumber_Positive",
     UNARY_NEGATIVE |-> "PyNumber_Negative"]

POP_TOP(m) ==
    LET m1 == Pop(m)
        top_ == m1.top
    IN  DecRef(m1, top_)

\* The name objects of co_names, the cells of the frame and the two
\* dictionaries are handles the rules pass on without counting references.
NameBase == 100    \* &names_[0]: LookupName(i) is NameBase + i
CellBase == 200    \* &freevars_[0]: the cell of index i is CellBase + i
GlobalsRef == 300  \* this->globals_
BuiltinsRef == 301 \* this->builtins_

LookupName(names_index) == NameBase + names_index

\* A lookup that asks the builtins whatever the globals answered.
LOAD_GLOBAL_builtins_always(m, names_index, global, builtin) ==
    LET name == LookupName(names_index)
        m1 == Call(m, "PyDict_GetItem", <<GlobalsRef, name>>, global)
        m2 == Call(m1, "PyDict_GetItem", <<BuiltinsRef, name>>, builtin)
    IN  IF IsNull(global)
        THEN IF IsNull(builtin)
             THEN Return(Call(m2, "_PyEval_RaiseForGlobalNameError",
                              <<"frame_", name>>, 0), Null)
             ELSE Push(IncRef(m2, builtin), builtin)
        ELSE Push(IncRef(m2, global), global)

LOAD_GLOBAL(m, names_index, global, builtin) ==
    LET name == LookupName(names_index)
        m1 == Call(m, "PyDict_GetItem", <<GlobalsRef, name>>, global)
    IN  IF IsNull(global)
        THEN LET m2 == Call(m1, "PyDict_GetItem", <<BuiltinsRef, name>>,
                            builtin)
             IN  IF IsNull(builtin)
                 THEN Return(Call(m2, "_PyEval_RaiseForGlobalNameError",
                                  <<"frame_", name>>, 0), Null)
                 ELSE Push(IncRef(m2, builtin), builtin)
        ELSE Push(IncRef(m1, global), global)

STORE_GLOBAL(m, names_index, result) ==
    LET name == LookupName(names_index)
        m1 == Pop(m)
        value == m1.top
        m2 == Call(m1, "PyDict_SetItem", <<GlobalsRef, name, value>>, result)
        m3 == DecRef(m2, value)
    IN  IF IsNonZero(result) THEN Return(m3, Null) ELSE m3

DELETE_GLOBAL(m, names_index, result) ==
    LET name == LookupName(names_index)
        m1 == Call(m, "PyDict_DelItem", <<GlobalsRef, name>>, result)
    IN  IF IsNonZero(result)
        THEN Return(Call(m1, "_PyEval_RaiseForGlobalNameError",
                         <<"frame_", name>>, 0), Null)
        ELSE m1

LOAD_DEREF(m, index, value, was_err) ==
    LET cell == CellBase + index
        m1 == CallNewRef(m, "PyCell_Get", <<cell>>, value)
    IN  IF IsNull(value)
        THEN LET m2 == Call(m1, "PyErr_Occurred", <<>>, was_err)
             IN  IF IsNull(was_err)
                 THEN Return(Call(m2, "_PyEval_RaiseForUnboundLocal",
                                  <<"frame_", index>>, 0), Null)
                 ELSE Return(m2, Null)
        ELSE Push(m1, value)

STORE_DEREF(m, index, result) ==
    LET m1 == Pop(m)
        value == m1.top
        cell == CellBase + index
        m2 == Call(m1, "PyCell_Set", <<cell, value>>, result)
        m3 == DecRef(m2, value)
    IN  IF IsNonZero(result) THEN Return(m3, Null) ELSE m3

LOAD_ATTR(m, names_index, result) ==
    LET attr_name == LookupName(names_index)
        m1 == Pop(m)
        obj == m1.top
        m2 == CallNewRef(m1, "PyObject_GetAttr", <<obj, attr_name>>, result)
        m3 == DecRef(m2, obj)
    IN  IF IsNull(result) THEN Return(m3, Null) ELSE Push(m3, result)

\* A STORE_ATTR that forgets to release the stored value.
STORE_ATTR_leaks_value(m, names_index, result) ==
    LET attr_name == LookupName(names_index)
        m1 == Pop(m)
        obj == m1.top
        m2 == Pop(m1)
        value == m2.top
        m3 == Call(m2, "PyObject_SetAttr", <<obj, attr_name, value>>, result)
        m5 == DecRef(m3, obj)
    IN  IF IsNonZero(result) THEN Return(m5, Null) ELSE m5

STORE_ATTR(m, names_index, result) ==
    LET attr_name == LookupName(names_index)
        m1 == Pop(m)
        obj == m1.top
        m2 == Pop(m1)
        value == m2.top
        m3 == Call(m2, "PyObject_SetAttr", <<obj, attr_name, value>>, result)
        m4 == DecRef(m3, value)
        m5 == DecRef(m4, obj)
    IN  IF IsNonZero(result) THEN Return(m5, Null) ELSE m5

DELETE_ATTR(m, names_index, result) ==
    LET attr_name == LookupName(names_index)
        m1 == Pop(m)
        obj == m1.top
        value == Null
        m2 == Call(m1, "PyObject_SetAttr", <<obj, attr_name, value>>, result)
        m3 == DecRef(m2, obj)
    IN  IF IsNonZero(result) THEN Return(m3, Null) ELSE m3

\* A GET_ITER that lets go of the object before it asks for the iterator.
GET_ITER_releases_first(m, iter) ==
    LET m1 == Pop(m)
        obj == m1.top
        m2 == DecRef(m1, obj)
        m3 == CallNewRef(m2, "PyObject_GetIter", <<obj>>, iter)
    IN  IF IsNull(iter) THEN Return(m3, Null) ELSE Push(m3, iter)

GET_ITER(m, iter) ==
    LET m1 == Pop(m)
        obj == m1.top
        m2 == CallNewRef(m1, "PyObject_GetIter", <<obj>>, iter)
        m3 == DecRef(m2, obj)
    IN  IF IsNull(iter) THEN Return(m3, Null) ELSE Push(m3, iter)

STORE_SUBSCR(m, result) ==
    LET m1 == Pop(m)
        key == m1.top
        m2 == Pop(m1)
        obj == m2.top
        m3 == Pop(m2)
        value == m3.top
        m4 == Call(m3, "PyObject_SetItem", <<obj, key, value>>, result)
        m5 == DecRef(m4, value)
        m6 == DecRef(m5, obj)
        m7 == DecRef(m6, key)
    IN  IF IsNonZero(result) THEN Return(m7, Null) ELSE m7

DELETE_SUBSCR(m, result) ==
    LET m1 == Pop(m)
        key == m1.top
        m2 == Pop(m1)
        obj == m2.top
        m3 == Call(m2, "PyObject_DelItem", <<obj, key>>, result)
        m4 == DecRef(m3, obj)
        m5 == DecRef(m4, key)
    IN  IF IsNonZero(result) THEN Return(m5, Null) ELSE m5

DUP_TOP(m) ==
    LET m1 == Pop(m)
        first == m1.top
    IN  Push(Push(IncRef(m1, first), first), first)

DUP_TOP_TWO(m) ==
    LET m1 == Pop(m)
        first == m1.top
        m2 == Pop(m1)
        second == m2.top
        m3 == IncRef(IncRef(m2, first), second)
    IN  Push(Push(Push(Push(m3, second), first), second), first)

DUP_TOP_THREE(m) ==
    LET m1 == Pop(m)
        first == m1.top
        m2 == Pop(m1)
        second == m2.top
        m3 == Pop(m2)
        third == m3.top
        m4 == IncRef(IncRef(IncRef(m3, first), second), third)
        m5 == Push(Push(Push(m4, third), second), first)
    IN  Push(Push(Push(m5, third), second), first)

ROT_TWO(m) ==
    LET m1 == Pop(m)
        first == m1.top
        m2 == Pop(m1)
        second == m2.top
    IN  Push(Push(m2, first), second)

\* A rotation that sinks the second entry instead of the top one.
ROT_THREE_sinks_second(m) ==
    LET m1 == Pop(m)
        first == m1.top
        m2 == Pop(m1)
        second == m2.top
        m3 == Pop(m2)
        third == m3.top
    IN  Push(Push(Push(m3, second), first), third)

ROT_THREE(m) ==
    LET m1 == Pop(m)
        first == m1.top
        m2 == Pop(m1)
        second == m2.top
        m3 == Pop(m2)
        third == m3.top
    IN  Push(Push(Push(m3, first), third), second)

ROT_FOUR(m) ==
    LET m1 == Pop(m)
        first == m1.top
        m2 == Pop(m1)
        second == m2.top
        m3 == Pop(m2)
        third == m3.top
        m4 == Pop(m3)
        fourth == m4.top
    IN  Push(Push(Push(Push(m4, first), fourth), third), second)

LIST_APPEND(m, result) ==
    LET m1 == Pop(m)
        item == m1.top
        m2 == Pop(m1)
        listobj == m2.top
        m3 == Call(m2, "PyList_Append", <<listobj, item>>, result)
        m4 == DecRef(m3, listobj)
        m5 == DecRef(m4, item)
    IN  IF IsNonZero(result) THEN Return(m5, Null) ELSE m5

\* A STORE_MAP that does not push the dictionary back.
STORE_MAP_drops_dict(m, result) ==
    LET m1 == Pop(m)
        key == m1.top
        m2 == Pop(m1)
        value == m2.top
        m3 == Pop(m2)
        dict == m3.top
        m5 == Call(m3, "PyDict_SetItem", <<dict, key, value>>, result)
        m6 == DecRef(m5, value)
        m7 == DecRef(m6, key)
    IN  IF IsNonZero(result) THEN Return(m7, Null) ELSE m7

\* A STORE_MAP that releases the dictionary along with the key and value.
STORE_MAP_releases_dict(m, result) ==
    LET m1 == Pop(m)
        key == m1.top
        m2 == Pop(m1)
        value == m2.top
        m3 == Pop(m2)
        dict == m3.top
        m4 == Push(m3, dict)
        m5 == Call(m4, "PyDict_SetItem", <<dict, key, value>>, result)
        m6 == DecRef(m5, value)
        m7 == DecRef(DecRef(m6, key), dict)
    IN  IF IsNonZero(result) THEN Return(m7, Null) ELSE m7

STORE_MAP(m, result) ==
    LET m1 == Pop(m)
        key == m1.top
        m2 == Pop(m1)
        value == m2.top
        m3 == Pop(m2)
        dict == m3.top
        m4 == Push(m3, dict)
        m5 == Call(m4, "PyDict_SetItem", <<dict, key, value>>, result)
        m6 == DecRef(m5, value)
        m7 == DecRef(m6, key)
    IN  IF IsNonZero(result) THEN Return(m7, Null) ELSE m7

List_SET_ITEM(m, lst, idx, item) ==
    Ev(m, [k |-> "setitem", f |-> "list", seq |-> lst, idx |-> idx,
           v |-> item])

Tuple_SET_ITEM(m, tup, idx, item) ==
    Ev(m, [k |-> "setitem", f |-> "tuple", seq |-> tup, idx |-> idx,
           v |-> item])

\* SeqBuild_loop_start / SeqBuild_loop_body, phi being SeqBuild_loop_var
RECURSIVE SeqBuild_loop(_, _, _, _)
SeqBuild_loop(m, list, seq, phi) ==
    IF phi <= 0
    THEN m
    ELSE LET m1 == Pop(m)
             item == m1.top
             nextval == phi - 1
             m2 == IF list THEN List_SET_ITEM(m1, seq, nextval, item)
                           ELSE Tuple_SET_ITEM(m1, seq, nextval, item)
         IN  SeqBuild_loop(m2, list, seq, nextval)

\* A builder that fills the container before it tests it for null.
SequenceBuilder_fills_first(m, size, createname, list, seq) ==
    LET m1 == SeqBuild_loop(CallNewRef(m, createname, <<size>>, seq),
                            list, seq, size)
    IN  IF IsNull(seq) THEN Return(m1, Null) ELSE Push(m1, seq)

SequenceBuilder(m, size, createname, list, seq) ==
    LET m1 == CallNewRef(m, createname, <<size>>, seq)
    IN  IF IsNull(seq)
        THEN Return(m1, Null)
        ELSE Push(SeqBuild_loop(m1, list, seq, size), seq)

BUILD_LIST(m, size, seq) == SequenceBuilder(m, size, "PyList_New", TRUE, seq)

BUILD_TUPLE(m, size, seq) ==
    SequenceBuilder(m, size, "PyTuple_New", FALSE, seq)

\* A UNARY_NOT that boxes the truth value itself.
UNARY_NOT_boxes_truth(m, result) ==
    LET m1 == Pop(m)
        value == m1.top
        m2 == Call(m1, "PyObject_IsTrue", <<value>>, result)
        iserr == result < 0
        m3 == DecRef(m2, value)
        istrue == result > 0
        retval_ == IF istrue THEN PyTrue ELSE PyFalse
    IN  IF iserr THEN Return(m3, Null) ELSE Push(IncRef(m3, retval_), retval_)

UNARY_NOT(m, result) ==
    LET m1 == Pop(m)
        value == m1.top
        m2 == Call(m1, "PyObject_IsTrue", <<value>>, result)
        iserr == result < 0
        m3 == DecRef(m2, value)
        istrue == result > 0
        retval_ == IF istrue THEN PyFalse ELSE PyTrue
    IN  IF iserr THEN Return(m3, Null) ELSE Push(IncRef(m3, retval_), retval_)

\* A pointer comparison of the two operands, in the place it is emitted.
ICmp(m, lhs, rhs) == Ev(m, [k |-> "icmp", args |-> <<lhs, rhs>>])

\* A containment test that hands the entry point the item first.
ContainerContains_item_first(m, container, item, result) ==
    LET m1 == Call(m, "PySequence_Contains", <<item, container>>, result)
        m2 == DecRef(m1, item)
        m3 == DecRef(m2, container)
    IN  IF result < 0 THEN Return(m3, Null)
                      ELSE [m3 EXCEPT !.flag = result > 0]

ContainerContains(m, container, item, result) ==
    LET m1 == Call(m, "PySequence_Contains", <<container, item>>, result)
        m2 == DecRef(m1, item)
        m3 == DecRef(m2, container)
    IN  IF result < 0 THEN Return(m3, Null)
                      ELSE [m3 EXCEPT !.flag = result > 0]

RichCompare(m, lhs, rhs, cmp_op, result) ==
    LET m1 == CallNewRef(m, "PyObject_RichCompare", <<lhs, rhs, cmp_op>>,
                         result)
        m2 == DecRef(m1, lhs)
        m3 == DecRef(m2, rhs)
    IN  IF IsNull(result) THEN Return(m3, Null) ELSE Push(m3, result)

ExceptionMatches(m, exc, exc_type, result) ==
    LET m1 == Call(m, "_PyEval_CheckedExceptionMatches", <<exc, exc_type>>,
                   result)
        m2 == DecRef(m1, exc_type)
        m3 == DecRef(m2, exc)
    IN  IF IsNull(result) THEN Return(m3, Null)
                          ELSE [m3 EXCEPT !.flag = result > 0]

PyCmp_LT == 0
PyCmp_LE == 1
PyCmp_EQ == 2
PyCmp_NE == 3
PyCmp_GT == 4
PyCmp_GE == 5
PyCmp_IN == 6
PyCmp_NOT_IN == 7
PyCmp_IS == 8
PyCmp_IS_NOT == 9
PyCmp_EXC_MATCH == 10

\* A select that is pushed without the acquire.
COMPARE_OP_result_borrows(m) ==
    LET value == IF m.flag THEN PyTrue ELSE PyFalse
    IN  IF m.pc = "return_block" THEN m ELSE Push(m, value)

\* The tail of COMPARE_OP: box the i1 into True/False.
COMPARE_OP_result(m) ==
    LET value == IF m.flag THEN PyTrue ELSE PyFalse
    IN  IF m.pc = "return_block" THEN m ELSE Push(IncRef(m, value), value)

COMPARE_OP(m, cmp_op, ires, ores) ==
    LET m1 == Pop(m)
        rhs == m1.top
        m2 == Pop(m1)
        lhs == m2.top
    IN  CASE cmp_op = PyCmp_IS ->
               COMPARE_OP_result(
                   DecRef(DecRef(ICmp([m2 EXCEPT !.flag = (lhs = rhs)],
                                      lhs, rhs), lhs), rhs))
          [] cmp_op = PyCmp_IS_NOT ->
               COMPARE_OP_result(
                   DecRef(DecRef(ICmp([m2 EXCEPT !.flag = (lhs # rhs)],
                                      lhs, rhs), lhs), rhs))
          [] cmp_op = PyCmp_IN ->
               COMPARE_OP_result(ContainerContains(m2, rhs, lhs, ires))
          [] cmp_op = PyCmp_NOT_IN ->
               LET m3 == ContainerContains(m2, rhs, lhs, ires)
               IN  COMPARE_OP_result([m3 EXCEPT !.flag = (m3.flag = FALSE)])
          [] cmp_op = PyCmp_EXC_MATCH ->
               COMPARE_OP_result(ExceptionMatches(m2, lhs, rhs, ires))
          [] cmp_op \in {PyCmp_EQ, PyCmp_NE, PyCmp_LT, PyCmp_LE, PyCmp_GT,
                         PyCmp_GE} ->
               RichCompare(m2, lhs, rhs, cmp_op, ores)

BUILD_MAP(m, size, result) ==
    LET m1 == CallNewRef(m, "_PyDict_NewPresized", <<size>>, result)
    IN  IF IsNull(result) THEN Return(m1, Null) ELSE Push(m1, result)

BuildSlice(m, start, stop, step, result) ==
    LET m1 == CallNewRef(m, "PySlice_New", <<start, stop, step>>, result)
        m2 == DecRef(m1, start)
        m3 == DecRef(m2, stop)
        m4 == XDecRef(m3, step)
    IN  IF IsNull(result) THEN Return(m4, Null) ELSE Push(m4, result)

BUILD_SLICE_TWO(m, result) ==
    LET step == Null
        m1 == Pop(m)
        stop == m1.top
        m2 == Pop(m1)
        start == m2.top
    IN  BuildSlice(m2, start, stop, step, result)

BUILD_SLICE_THREE(m, result) ==
    LET m1 == Pop(m)
        step == m1.top
        m2 == Pop(m1)
        stop == m2.top
        m3 == Pop(m2)
        start == m3.top
    IN  BuildSlice(m3, start, stop, step, result)

ApplySlice(m, seq, start, stop, result) ==
    LET m1 == CallNewRef(m, "_PyEval_ApplySlice", <<seq, start, stop>>, result)
        m2 == XDecRef(m1, stop)
        m3 == XDecRef(m2, start)
        m4 == DecRef(m3, seq)
    IN  IF IsNull(result) THEN Return(m4, Null) ELSE Push(m4, result)

SLICE_BOTH(m, result) ==
    LET m1 == Pop(m)
        stop == m1.top
        m2 == Pop(m1)
        start == m2.top
        m3 == Pop(m2)
        seq == m3.top
    IN  ApplySlice(m3, seq, start, stop, result)

\* A left-bounded slice that hands its bound over as the stop.
SLICE_LEFT_omits_start(m, result) ==
    LET start == Null
        m1 == Pop(m)
        stop == m1.top
        m2 == Pop(m1)
        seq == m2.top
    IN  ApplySlice(m2, seq, start, stop, result)

SLICE_LEFT(m, result) ==
    LET stop == Null
        m1 == Pop(m)
        start == m1.top
        m2 == Pop(m1)
        seq == m2.top
    IN  ApplySlice(m2, seq, start, stop, result)

SLICE_RIGHT(m, result) ==
    LET m1 == Pop(m)
        stop == m1.top
        start == Null
        m2 == Pop(m1)
        seq == m2.top
    IN  ApplySlice(m2, seq, start, stop, result)

SLICE_NONE(m, result) ==
    LET stop == Null
        start == Null
        m1 == Pop(m)
        seq == m1.top
    IN  ApplySlice(m1, seq, start, stop, result)

AssignSlice(m, seq, start, stop, source, result) ==
    LET m1 == Call(m, "_PyEval_AssignSlice", <<seq, start, stop, source>>,
                   result)
        m2 == XDecRef(m1, source)
        m3 == XDecRef(m2, stop)
        m4 == XDecRef(m3, start)
        m5 == DecRef(m4, seq)
    IN  IF IsNonZero(result) THEN Return(m5, Null) ELSE m5

STORE_SLICE_BOTH(m, result) ==
    LET m1 == Pop(m)
        stop == m1.top
        m2 == Pop(m1)
        start == m2.top
        m3 == Pop(m2)
        seq == m3.top
        m4 == Pop(m3)
        source == m4.top
    IN  AssignSlice(m4, seq, start, stop, source, result)

STORE_SLICE_LEFT(m, result) ==
    LET stop == Null
        m1 == Pop(m)
        start == m1.top
        m2 == Pop(m1)
        seq == m2.top
        m3 == Pop(m2)
        source == m3.top
    IN  AssignSlice(m3, seq, start, stop, source, result)

STORE_SLICE_RIGHT(m, result) ==
    LET m1 == Pop(m)
        stop == m1.top
        start == Null
        m2 == Pop(m1)
        seq == m2.top
        m3 == Pop(m2)
        source == m3.top
    IN  AssignSlice(m3, seq, start, stop, source, result)

STORE_SLICE_NONE(m, result) ==
    LET stop == Null
        start == Null
        m1 == Pop(m)
        seq == m1.top
        m2 == Pop(m1)
        source == m2.top
    IN  AssignSlice(m2, seq, start, stop, source, result)

DELETE_SLICE_BOTH(m, result) ==
    LET m1 == Pop(m)
        stop == m1.top
        m2 == Pop(m1)
        start == m2.top
        m3 == Pop(m2)
        seq == m3.top
        source == Null
    IN  AssignSlice(m3, seq, start, stop, source, result)

DELETE_SLICE_LEFT(m, result) ==
    LET stop == Null
        m1 == Pop(m)
        start == m1.top
        m2 == Pop(m1)
        seq == m2.top
        source == Null
    IN  AssignSlice(m2, seq, start, stop, source, result)

DELETE_SLICE_RIGHT(m, result) ==
    LET m1 == Pop(m)
        stop == m1.top
        start == Null
        m2 == Pop(m1)
        seq == m2.top
        source == Null
    IN  AssignSlice(m2, seq, start, stop, source, result)

DELETE_SLICE_NONE(m, result) ==
    LET stop == Null
        start == Null
        m1 == Pop(m)
        seq == m1.top
        source == Null
    IN  AssignSlice(m1, seq, start, stop, source, result)

\* What _PyEval_UnpackIterable does to the frame when it succeeds: it fills
\* the size slots below the pointer it is given, first item uppermost, each
\* slot with a new reference.
RECURSIVE UnpackIterable(_, _, _, _)
UnpackIterable(m, items, size, p) ==
    IF size = 0
    THEN m
    ELSE LET w == items[Len(items) - size + 1]
         IN  UnpackIterable(
                 [m EXCEPT !.mem[p - 1] = w, !.refcnt[w] = @ + 1,
                           !.reftotal = IF m.refdebug THEN @ + 1 ELSE @],
                 items, size - 1, p - 1)

\* An UNPACK_SEQUENCE that releases the iterable only when unpacking worked.
UNPACK_SEQUENCE_leaks_on_failure(m, size, result, items) ==
    LET m1 == Pop(m)
        iterable == m1.top
        stack_pointer == m1.sp
        m2 == Call(m1, "_PyEval_UnpackIterable",
                   <<iterable, size, stack_pointer + size>>, result)
        m3 == IF result # 0
              THEN UnpackIterable(m2, items, size, stack_pointer + size)
              ELSE m2
    IN  IF IsNonZero(result)
        THEN [DecRef(m3, iterable) EXCEPT !.sp = stack_pointer + size]
        ELSE Return(m3, Null)

UNPACK_SEQUENCE(m, size, result, items) ==
    LET m1 == Pop(m)
        iterable == m1.top
        stack_pointer == m1.sp
        m2 == Call(m1, "_PyEval_UnpackIterable",
                   <<iterable, size, stack_pointer + size>>, result)
        m3 == IF result # 0
              THEN UnpackIterable(m2, items, size, stack_pointer + size)
              ELSE m2
        m4 == DecRef(m3, iterable)
    IN  IF IsNonZero(result)
        THEN [m4 EXCEPT !.sp = stack_pointer + size]
        ELSE Return(m4, Null)

\* An IsTrue that takes only -1 for a failure and only 1 for true.
IsTrue_exact_codes(m, value, istrue_result) ==
    LET is_PyTrue == (PyTrue = value)
        is_PyFalse == (PyFalse = value)
    IN  IF is_PyTrue THEN [m EXCEPT !.flag = is_PyTrue]
        ELSE IF is_PyFalse THEN [m EXCEPT !.flag = is_PyTrue]
        ELSE LET m1 == Call(m, "PyObject_IsTrue", <<value>>, istrue_result)
                 is_error == istrue_result = -1
                 is_nonzero == istrue_result = 1
             IN  IF is_error THEN Return(m1, Null)
                             ELSE [m1 EXCEPT !.flag = is_nonzero]

IsTrue(m, value, istrue_result) ==
    LET is_PyTrue == (PyTrue = value)
        is_PyFalse == (PyFalse = value)
    IN  IF is_PyTrue THEN [m EXCEPT !.flag = is_PyTrue]
        ELSE IF is_PyFalse THEN [m EXCEPT !.flag = is_PyTrue]
        ELSE LET m1 == Call(m, "PyObject_IsTrue", <<value>>, istrue_result)
                 is_error == istrue_result < 0
                 is_nonzero == istrue_result > 0
             IN  IF is_error THEN Return(m1, Null)
                             ELSE [m1 EXCEPT !.flag = is_nonzero]

\* builder().CreateBr / CreateCondBr to one of the driver's blocks
Br(m, to) == Ev([m EXCEPT !.br = to], [k |-> "br", to |-> to])

JUMP_ABSOLUTE(m) == Br(m, "target")

POP_JUMP_IF_FALSE(m, istrue_result) ==
    LET m1 == Pop(m)
        test_value == m1.top
        m2 == IsTrue(m1, test_value, istrue_result)
    IN  IF m2.pc = "return_block" THEN m2
        ELSE Br(DecRef(m2, test_value),
                IF m2.flag THEN "fallthrough" ELSE "target")

POP_JUMP_IF_TRUE(m, istrue_result) ==
    LET m1 == Pop(m)
        test_value == m1.top
        m2 == IsTrue(m1, test_value, istrue_result)
    IN  IF m2.pc = "return_block" THEN m2
        ELSE Br(DecRef(m2, test_value),
                IF m2.flag THEN "target" ELSE "fallthrough")

\* A JUMP_IF_FALSE_OR_POP that does not put the tested value back before it
\* tests it.
JUMP_IF_FALSE_OR_POP_consumes(m, istrue_result) ==
    LET m1 == Pop(m)
        test_value == m1.top
        m3 == IsTrue(m1, test_value, istrue_result)
    IN  IF m3.pc = "return_block" THEN m3
        ELSE IF m3.flag
             THEN Br(DecRef(m3, test_value), "fallthrough")
             ELSE Br(m3, "target")

JUMP_IF_FALSE_OR_POP(m, istrue_result) ==
    LET m1 == Pop(m)
        test_value == m1.top
        m2 == Push(m1, test_value)
        m3 == IsTrue(m2, test_value, istrue_result)
    IN  IF m3.pc = "return_block" THEN m3
        ELSE IF m3.flag
             THEN LET m4 == Pop(m3)
                  IN  Br(DecRef(m4, m4.top), "fallthrough")
             ELSE Br(m3, "target")

JUMP_IF_TRUE_OR_POP(m, istrue_result) ==
    LET m1 == Pop(m)
        test_value == m1.top
        m2 == Push(m1, test_value)
        m3 == IsTrue(m2, test_value, istrue_result)
    IN  IF m3.pc = "return_block" THEN m3
        ELSE IF m3.flag
             THEN Br(m3, "target")
             ELSE LET m4 == Pop(m3)
                  IN  Br(DecRef(m4, m4.top), "fallthrough")

SETUP_LOOP(m) == m

POP_BLOCK(m) == m

\* A FOR_ITER that keeps the iterator's reference when the iteration ends.
FOR_ITER_keeps_iter(m, next, err_occurred, was_stopiteration) ==
    LET m1 == Pop(m)
        iter == m1.top
        m2 == CallNewRef(m1, "tp_iternext", <<iter>>, next)
    IN  IF IsNull(next)
        THEN LET m3 == Call(m2, "PyErr_Occurred", <<>>, err_occurred)
             IN  IF IsNull(err_occurred)
                 THEN Br(m3, "target")
                 ELSE LET m4 == Call(m3, "PyErr_ExceptionMatches", <<>>,
                                     was_stopiteration)
                      IN  IF IsNonZero(was_stopiteration)
                          THEN Br(Call(m4, "PyErr_Clear", <<>>, 0), "target")
                          ELSE Return(DecRef(m4, iter), Null)
        ELSE Push(Push(m2, iter), next)

FOR_ITER(m, next, err_occurred, was_stopiteration) ==
    LET m1 == Pop(m)
        iter == m1.top
        m2 == CallNewRef(m1, "tp_iternext", <<iter>>, next)
    IN  IF IsNull(next)
        THEN LET m3 == Call(m2, "PyErr_Occurred", <<>>, err_occurred)
             IN  IF IsNull(err_occurred)
                 THEN Br(DecRef(m3, iter), "target")
                 ELSE LET m4 == Call(m3, "PyErr_ExceptionMatches", <<>>,
                                     was_stopiteration)
                      IN  IF IsNonZero(was_stopiteration)
                          THEN Br(DecRef(Call(m4, "PyErr_Clear", <<>>, 0),
                                         iter), "target")
                          ELSE Return(DecRef(m4, iter), Null)
        ELSE Push(Push(m2, iter), next)

\* What the call-dispatch entry points do to the frame: they pop the k
\* entries (callable and arguments) below the pointer they are handed,
\* release each, and leave the pointer k slots lower.
RECURSIVE CalleePops(_, _, _)
CalleePops(m, p, k) ==
    IF k = 0
    THEN [m EXCEPT !.tmp = p]
    ELSE LET w == m.mem[p - 1]
         IN  CalleePops(
                 [m EXCEPT !.refcnt[w] = @ - 1,
                           !.reftotal = IF m.refdebug THEN @ - 1 ELSE @],
                 p - 1, k - 1)

\* A CALL_FUNCTION that never copies the temporary back.
CALL_FUNCTION_drops_temp(m, num_args, result) ==
    LET m1 == [m EXCEPT !.tmp = m.sp]
        m2 == CallNewRef(CalleePops(m1, m1.tmp, num_args + 1),
                         "_PyEval_CallFunction", <<num_args>>, result)
    IN  IF IsNull(result) THEN Return(m2, Null) ELSE Push(m2, result)

CALL_FUNCTION(m, num_args, result) ==
    LET m1 == [m EXCEPT !.tmp = m.sp]
        m2 == CallNewRef(CalleePops(m1, m1.tmp, num_args + 1),
                         "_PyEval_CallFunction", <<num_args>>, result)
        m3 == [m2 EXCEPT !.sp = m2.tmp]
    IN  IF IsNull(result) THEN Return(m3, Null) ELSE Push(m3, result)

CALL_FUNCTION_VAR_KW(m, num_args, extra, result) ==
    LET m1 == CallNewRef(CalleePops(m, m.sp, num_args + 1 + extra),
                         "_PyEval_CallFunctionVarKw", <<num_args>>, result)
        m2 == [m1 EXCEPT !.sp = m1.tmp]
    IN  IF IsNonZero(result) THEN Return(m2, Null) ELSE m2

DoRaise(m, exc_type, exc_inst, exc_tb) ==
    Return(Call(m, "_PyEval_DoRaise", <<exc_type, exc_inst, exc_tb>>, 0),
           Null)

RAISE_VARARGS_ZERO(m) ==
    LET exc_tb == Null
        exc_inst == Null
        exc_type == Null
    IN  DoRaise(m, exc_type, exc_inst, exc_tb)

RAISE_VARARGS_ONE(m) ==
    LET exc_tb == Null
        exc_inst == Null
        m1 == Pop(m)
        exc_type == m1.top
    IN  DoRaise(m1, exc_type, exc_inst, exc_tb)

RAISE_VARARGS_TWO(m) ==
    LET exc_tb == Null
        m1 == Pop(m)
        exc_inst == m1.top
        m2 == Pop(m1)
        exc_type == m2.top
    IN  DoRaise(m2, exc_type, exc_inst, exc_tb)

\* A RAISE_VARARGS_THREE that takes the type from the top of the stack.
RAISE_VARARGS_THREE_type_on_top(m) ==
    LET m1 == Pop(m)
        exc_type == m1.top
        m2 == Pop(m1)
        exc_inst == m2.top
        m3 == Pop(m2)
        exc_tb == m3.top
    IN  DoRaise(m3, exc_type, exc_inst, exc_tb)

RAISE_VARARGS_THREE(m) ==
    LET m1 == Pop(m)
        exc_tb == m1.top
        m2 == Pop(m1)
        exc_inst == m2.top
        m3 == Pop(m2)
        exc_type == m3.top
    IN  DoRaise(m3, exc_type, exc_inst, exc_tb)

\* ------------------------------------------------------- the IR that is built
\* The function under construction is a sequence of basic blocks in creation
\* order; a block is its label and its instructions.  An instruction is a
\* record: k is "op" for anything that is not a terminator (what names the
\* helper or runtime function that emitted it), "br", "condbr" or "ret";
\* to lists the successor blocks of a terminator.  env holds the C++ local
\* variables of the builder method being run that point to blocks.
return_block_ == 2

NoArgs == [v \in {} |-> 0]

Builder(bs, c, dbg) == [blocks |-> bs, cur |-> c, refdebug |-> dbg, env |-> NoArgs]

\* BasicBlock::Create(name, function()): appended to the function.
Create(b, name) ==
    [b EXCEPT !.blocks = Append(@, [name |-> name, ins |-> <<>>])]

\* builder().SetInsertPoint(block)
SetInsertPoint(b, block) == [b EXCEPT !.cur = block]

\* IRBuilder::Insert: the instruction goes at the end of the insertion block.
Insert(b, i) == [b EXCEPT !.blocks[b.cur].ins = Append(@, i)]

Emit(b, what) == Insert(b, [k |-> "op", what |-> what, to |-> <<>>])
CreateBr(b, dest) == Insert(b, [k |-> "br", what |-> "", to |-> <<dest>>])
CreateCondBr(b, iftrue, iffalse) ==
    Insert(b, [k |-> "condbr", what |-> "", to |-> <<iftrue, iffalse>>])
CreateRet(b) == Insert(b, [k |-> "ret", what |-> "", to |-> <<>>])

IsTerminator(i) == i.k \in {"br", "condbr", "ret"}

\* BasicBlock::getTerminator: the last instruction when it is a terminator.
getTerminator(blk) ==
    IF blk.ins # <<>> /\ IsTerminator(blk.ins[Len(blk.ins)])
    THEN <<blk.ins[Len(blk.ins)]>>
    ELSE <<>>

\* A fallthrough helper that branches without looking at the block.
FallThroughTo_always_branches(b, next_block) ==
    SetInsertPoint(CreateBr(b, next_block), next_block)

FallThroughTo(b, next_block) ==
    LET b1 == IF getTerminator(b.blocks[b.cur]) = <<>>
              THEN CreateBr(b, next_block)
              ELSE b
    IN  SetInsertPoint(b1, next_block)

\* A return helper that returns on the spot instead of going through the
\* shared return block.
Emit_Return_in_place(b) == CreateRet(Emit(b, "store retval"))

\* A return helper that leaves for the return block without a store.
Emit_Return_without_store(b) == CreateBr(b, return_block_)

\* Return(retval): store to the return slot, branch to the return block.
Emit_Return(b) == CreateBr(Emit(b, "store retval"), return_block_)

\* A builder method is written as the list of its statements that touch the
\* function, in source order: <<"Create", variable, label>> for
\* BasicBlock::Create, SetInsertPoint, CreateCondBr, CreateBr, CreateRet and
\* FallThroughTo on block variables, a call of another builder method by its
\* name, and <<"op", what>> for any other run of straight-line instructions
\* (Push, Pop and IncRef emit only such instructions).

\* FillReturnBlock and the reference-count, local-slot and truthiness helpers.
BuilderMethods ==
    [FillReturnBlock |-> <<
            <<"GetInsertBlock", "orig_block">>,
            <<"SetInsertPoint", "return_block_">>, <<"op", "stack_bottom">>,
            <<"Create", "pop_loop", "pop_loop">>,
            <<"Create", "pop_block", "pop_stack">>,
            <<"Create", "do_return", "do_return">>,
            <<"FallThroughTo", "pop_loop">>, <<"op", "finished_popping">>,
            <<"CreateCondBr", "do_return", "pop_block">>,
            <<"SetInsertPoint", "pop_block">>, <<"Pop">>, <<"XDecRef">>,
            <<"CreateBr", "pop_loop">>, <<"SetInsertPoint", "do_return">>,
            <<"op", "retval">>, <<"CreateRet">>,
            <<"SetInsertPoint", "orig_block">>>>,
     DecRef |-> <<
            <<"op", "decrement refcnt">>,
            <<"Create", "block_dealloc", "dealloc">>,
            <<"Create", "block_tail", "decref_tail">>,
            <<"CreateCondBr", "block_tail", "block_dealloc">>,
            <<"SetInsertPoint", "block_dealloc">>,
            <<"op", "_PyLlvm_WrapDealloc">>, <<"CreateBr", "block_tail">>,
            <<"SetInsertPoint", "block_tail">>>>,
     DecRef_Py_REF_DEBUG |-> <<
            <<"op", "decrement _Py_RefTotal">>, <<"op", "decrement refcnt">>,
            <<"Create", "block_dealloc", "dealloc">>,
            <<"Create", "block_tail", "decref_tail">>,
            <<"Create", "block_ref_ne_zero", "check_refcnt">>,
            <<"CreateCondBr", "block_ref_ne_zero", "block_dealloc">>,
            <<"SetInsertPoint", "block_ref_ne_zero">>, <<"op", "less_zero">>,
            <<"Create", "block_ref_lt_zero", "negative_refcount">>,
            <<"CreateCondBr", "block_ref_lt_zero", "block_tail">>,
            <<"SetInsertPoint", "block_ref_lt_zero">>,
            <<"op", "_Py_NegativeRefcount">>, <<"CreateBr", "block_tail">>,
            <<"SetInsertPoint", "block_dealloc">>,
            <<"op", "_PyLlvm_WrapDealloc">>, <<"CreateBr", "block_tail">>,
            <<"SetInsertPoint", "block_tail">>>>,
     XDecRef |-> <<
            <<"Create", "do_decref", "decref">>,
            <<"Create", "decref_end", "decref_end">>,
            <<"CreateCondBr", "decref_end", "do_decref">>,
            <<"SetInsertPoint", "do_decref">>, <<"DecRef">>,
            <<"CreateBr", "decref_end">>, <<"SetInsertPoint", "decref_end">>>>,
     SetLocal |-> <<
            <<"op", "load local">>, <<"op", "store local">>, <<"XDecRef">>>>,
     IsTrue |-> <<
            <<"Create", "not_py_true", "IsTrue_is_not_PyTrue">>,
            <<"Create", "not_py_false", "IsTrue_is_not_PyFalse">>,
            <<"Create", "failure", "IsTrue_failure">>,
            <<"Create", "success", "IsTrue_success">>,
            <<"Create", "done", "IsTrue_done">>, <<"GetInsertBlock", "entry">>,
            <<"op", "is_PyTrue">>, <<"CreateCondBr", "done", "not_py_true">>,
            <<"SetInsertPoint", "not_py_true">>, <<"op", "is_PyFalse">>,
            <<"CreateCondBr", "done", "not_py_false">>,
            <<"SetInsertPoint", "not_py_false">>, <<"op", "PyObject_IsTrue">>,
            <<"op", "is_error">>, <<"CreateCondBr", "failure", "success">>,
            <<"SetInsertPoint", "failure">>, <<"Return">>,
            <<"SetInsertPoint", "success">>, <<"op", "is_nonzero">>,
            <<"CreateBr", "done">>, <<"SetInsertPoint", "done">>,
            <<"op", "phi">>>>]

\* Constants, globals, fast locals, cells and attributes.
NameRules ==
    [LOAD_CONST |-> <<
            <<"op", "co_consts">>, <<"IncRef">>, <<"Push">>>>,
     LOAD_GLOBAL |-> <<
            <<"Create", "global_missing", "GetGlobal_global_missing">>,
            <<"Create", "global_success", "GetGlobal_global_success">>,
            <<"Create", "builtin_missing", "GetGlobal_builtin_missing">>,
            <<"Create", "builtin_success", "GetGlobal_builtin_success">>,
            <<"Create", "done", "GetGlobal_done">>, <<"op", "LookupName">>,
            <<"op", "PyDict_GetItem">>,
            <<"CreateCondBr", "global_missing", "global_success">>,
            <<"SetInsertPoint", "global_success">>, <<"IncRef">>, <<"Push">>,
            <<"CreateBr", "done">>, <<"SetInsertPoint", "global_missing">>,
            <<"op", "PyDict_GetItem">>,
            <<"CreateCondBr", "builtin_missing", "builtin_success">>,
            <<"SetInsertPoint", "builtin_missing">>,
            <<"op", "_PyEval_RaiseForGlobalNameError">>, <<"Return">>,
            <<"SetInsertPoint", "builtin_success">>, <<"IncRef">>, <<"Push">>,
            <<"CreateBr", "done">>, <<"SetInsertPoint", "done">>>>,
     STORE_GLOBAL |-> <<
            <<"Create", "failure", "STORE_GLOBAL_failure">>,
            <<"Create", "success", "STORE_GLOBAL_success">>, <<"Pop">>,
            <<"op", "LookupName">>, <<"op", "PyDict_SetItem">>, <<"DecRef">>,
            <<"CreateCondBr", "failure", "success">>,
            <<"SetInsertPoint", "failure">>, <<"Return">>,
            <<"SetInsertPoint", "success">>>>,
     DELETE_GLOBAL |-> <<
            <<"Create", "failure", "DELETE_GLOBAL_failure">>,
            <<"Create", "success", "DELETE_GLOBAL_success">>,
            <<"op", "LookupName">>, <<"op", "PyDict_DelItem">>,
            <<"CreateCondBr", "failure", "success">>,
            <<"SetInsertPoint", "failure">>,
            <<"op", "_PyEval_RaiseForGlobalNameError">>, <<"Return">>,
            <<"SetInsertPoint", "success">>>>,
     LOAD_FAST |-> <<
            <<"Create", "unbound_local", "LOAD_FAST_unbound">>,
            <<"Create", "success", "LOAD_FAST_success">>,
            <<"op", "load local">>,
            <<"CreateCondBr", "unbound_local", "success">>,
            <<"SetInsertPoint", "unbound_local">>,
            <<"op", "_PyEval_RaiseForUnboundLocal">>, <<"Return">>,
            <<"SetInsertPoint", "success">>, <<"IncRef">>, <<"Push">>>>,
     LOAD_DEREF |-> <<
            <<"Create", "failed_load", "LOAD_DEREF_failed_load">>,
            <<"Create", "unbound_local", "LOAD_DEREF_unbound_local">>,
            <<"Create", "error", "LOAD_DEREF_error">>,
            <<"Create", "success", "LOAD_DEREF_success">>,
            <<"op", "PyCell_Get">>,
            <<"CreateCondBr", "failed_load", "success">>,
            <<"SetInsertPoint", "failed_load">>, <<"op", "PyErr_Occurred">>,
            <<"CreateCondBr", "unbound_local", "error">>,
            <<"SetInsertPoint", "unbound_local">>,
            <<"op", "_PyEval_RaiseForUnboundLocal">>, <<"Return">>,
            <<"SetInsertPoint", "error">>, <<"Return">>,
            <<"SetInsertPoint", "success">>, <<"Push">>>>,
     STORE_DEREF |-> <<
            <<"Create", "failure", "STORE_DEREF_failure">>,
            <<"Create", "success", "STORE_DEREF_success">>, <<"Pop">>,
            <<"op", "PyCell_Set">>, <<"DecRef">>,
            <<"CreateCondBr", "failure", "success">>,
            <<"SetInsertPoint", "failure">>, <<"Return">>,
            <<"SetInsertPoint", "success">>>>,
     LOAD_ATTR |-> <<
            <<"Create", "failure", "LOAD_ATTR_failure">>,
            <<"Create", "success", "LOAD_ATTR_success">>, <<"Pop">>,
            <<"op", "LookupName">>, <<"op", "PyObject_GetAttr">>, <<"DecRef">>,
            <<"CreateCondBr", "failure", "success">>,
            <<"SetInsertPoint", "failure">>, <<"Return">>,
            <<"SetInsertPoint", "success">>, <<"Push">>>>,
     STORE_ATTR |-> <<
            <<"Create", "failure", "STORE_ATTR_failure">>,
            <<"Create", "success", "STORE_ATTR_success">>, <<"Pop">>,
            <<"Pop">>, <<"op", "LookupName">>, <<"op", "PyObject_SetAttr">>,
            <<"DecRef">>, <<"DecRef">>,
            <<"CreateCondBr", "failure", "success">>,
            <<"SetInsertPoint", "failure">>, <<"Return">>,
            <<"SetInsertPoint", "success">>>>,
     DELETE_ATTR |-> <<
            <<"Create", "failure", "DELETE_ATTR_failure">>,
            <<"Create", "success", "DELETE_ATTR_success">>, <<"Pop">>,
            <<"op", "LookupName">>, <<"op", "PyObject_SetAttr">>, <<"DecRef">>,
            <<"CreateCondBr", "failure", "success">>,
            <<"SetInsertPoint", "failure">>, <<"Return">>,
            <<"SetInsertPoint", "success">>>>]

\* Calls, jumps, iteration, return and raise.
ControlRules ==
    [CALL_FUNCTION |-> <<
            <<"Create", "failure", "CALL_FUNCTION_failure">>,
            <<"Create", "success", "CALL_FUNCTION_success">>,
            <<"op", "alloca temp">>, <<"op", "store temp">>,
            <<"op", "_PyEval_CallFunction">>, <<"op", "store stack_pointer">>,
            <<"CreateCondBr", "failure", "success">>,
            <<"SetInsertPoint", "failure">>, <<"Return">>,
            <<"SetInsertPoint", "success">>, <<"Push">>>>,
     CALL_FUNCTION_VAR_KW |-> <<
            <<"Create", "failure", "CALL_FUNCTION_VAR_KW_failure">>,
            <<"Create", "success", "CALL_FUNCTION_VAR_KW_success">>,
            <<"op", "_PyEval_CallFunctionVarKw">>,
            <<"CreateCondBr", "failure", "success">>,
            <<"SetInsertPoint", "failure">>, <<"Return">>,
            <<"SetInsertPoint", "success">>>>,
     JUMP_ABSOLUTE |-> <<
            <<"CreateBr", "target">>>>,
     POP_JUMP_IF_FALSE |-> <<
            <<"Pop">>, <<"IsTrue">>, <<"DecRef">>,
            <<"CreateCondBr", "fallthrough", "target">>>>,
     POP_JUMP_IF_TRUE |-> <<
            <<"Pop">>, <<"IsTrue">>, <<"DecRef">>,
            <<"CreateCondBr", "target", "fallthrough">>>>,
     JUMP_IF_FALSE_OR_POP |-> <<
            <<"Create", "true_path", "JUMP_IF_FALSE_OR_POP_pop">>, <<"Pop">>,
            <<"Push">>, <<"IsTrue">>,
            <<"CreateCondBr", "true_path", "target">>,
            <<"SetInsertPoint", "true_path">>, <<"Pop">>, <<"DecRef">>,
            <<"CreateBr", "fallthrough">>>>,
     JUMP_IF_TRUE_OR_POP |-> <<
            <<"Create", "false_path", "JUMP_IF_TRUE_OR_POP_pop">>, <<"Pop">>,
            <<"Push">>, <<"IsTrue">>,
            <<"CreateCondBr", "target", "false_path">>,
            <<"SetInsertPoint", "false_path">>, <<"Pop">>, <<"DecRef">>,
            <<"CreateBr", "fallthrough">>>>,
     STORE_FAST |-> <<
            <<"Pop">>, <<"SetLocal">>>>,
     DELETE_FAST |-> <<
            <<"SetLocal">>>>,
     SETUP_LOOP |-> <<>>,
     GET_ITER |-> <<
            <<"Pop">>, <<"op", "PyObject_GetIter">>, <<"DecRef">>,
            <<"Create", "got_iter", "got_iter">>,
            <<"Create", "was_exception", "was_exception">>,
            <<"CreateCondBr", "was_exception", "got_iter">>,
            <<"SetInsertPoint", "was_exception">>, <<"Return">>,
            <<"SetInsertPoint", "got_iter">>, <<"Push">>>>,
     FOR_ITER |-> <<
            <<"Pop">>, <<"op", "tp_iternext">>,
            <<"Create", "got_next", "got_next">>,
            <<"Create", "next_null", "next_null">>,
            <<"CreateCondBr", "next_null", "got_next">>,
            <<"SetInsertPoint", "next_null">>, <<"op", "PyErr_Occurred">>,
            <<"Create", "iter_ended", "iter_ended">>,
            <<"Create", "exception", "exception">>,
            <<"CreateCondBr", "iter_ended", "exception">>,
            <<"SetInsertPoint", "exception">>,
            <<"op", "PyErr_ExceptionMatches">>,
            <<"Create", "clear_err", "clear_err">>,
            <<"Create", "propagate", "propagate">>,
            <<"CreateCondBr", "clear_err", "propagate">>,
            <<"SetInsertPoint", "propagate">>, <<"DecRef">>, <<"Return">>,
            <<"SetInsertPoint", "clear_err">>, <<"op", "PyErr_Clear">>,
            <<"CreateBr", "iter_ended">>, <<"SetInsertPoint", "iter_ended">>,
            <<"DecRef">>, <<"CreateBr", "target">>,
            <<"SetInsertPoint", "got_next">>, <<"Push">>, <<"Push">>>>,
     POP_BLOCK |-> <<>>,
     RETURN_VALUE |-> <<
            <<"Pop">>, <<"Return">>>>,
     DoRaise |-> <<
            <<"Create", "raise_block", "raise_block">>,
            <<"Create", "dead_code", "dead_code">>,
            <<"CreateCondBr", "raise_block", "dead_code">>,
            <<"SetInsertPoint", "raise_block">>, <<"op", "_PyEval_DoRaise">>,
            <<"Return">>, <<"SetInsertPoint", "dead_code">>>>,
     RAISE_VARARGS_ZERO |-> <<
            <<"DoRaise">>>>,
     RAISE_VARARGS_ONE |-> <<
            <<"Pop">>, <<"DoRaise">>>>,
     RAISE_VARARGS_TWO |-> <<
            <<"Pop">>, <<"Pop">>, <<"DoRaise">>>>,
     RAISE_VARARGS_THREE |-> <<
            <<"Pop">>, <<"Pop">>, <<"Pop">>, <<"DoRaise">>>>]

\* Subscripts, operators, stack shuffles, containers and comparisons.
ObjectRules ==
    [STORE_SUBSCR |-> <<
            <<"Create", "failure", "STORE_SUBSCR_failure">>,
            <<"Create", "success", "STORE_SUBSCR_success">>, <<"Pop">>,
            <<"Pop">>, <<"Pop">>, <<"op", "PyObject_SetItem">>, <<"DecRef">>,
            <<"DecRef">>, <<"DecRef">>,
            <<"CreateCondBr", "failure", "success">>,
            <<"SetInsertPoint", "failure">>, <<"Return">>,
            <<"SetInsertPoint", "success">>>>,
     GenericBinOp |-> <<
            <<"Create", "failure", "binop_failure">>,
            <<"Create", "success", "binop_success">>, <<"Pop">>, <<"Pop">>,
            <<"op", "binop">>, <<"DecRef">>, <<"DecRef">>,
            <<"CreateCondBr", "failure", "success">>,
            <<"SetInsertPoint", "failure">>, <<"Return">>,
            <<"SetInsertPoint", "success">>, <<"Push">>>>,
     GenericPowOp |-> <<
            <<"Create", "failure", "powop_failure">>,
            <<"Create", "success", "powop_success">>, <<"Pop">>, <<"Pop">>,
            <<"op", "powop">>, <<"DecRef">>, <<"DecRef">>,
            <<"CreateCondBr", "failure", "success">>,
            <<"SetInsertPoint", "failure">>, <<"Return">>,
            <<"SetInsertPoint", "success">>, <<"Push">>>>,
     DELETE_SUBSCR |-> <<
            <<"Create", "failure", "DELETE_SUBSCR_failure">>,
            <<"Create", "success", "DELETE_SUBSCR_success">>, <<"Pop">>,
            <<"Pop">>, <<"op", "PyObject_DelItem">>, <<"DecRef">>,
            <<"DecRef">>, <<"CreateCondBr", "failure", "success">>,
            <<"SetInsertPoint", "failure">>, <<"Return">>,
            <<"SetInsertPoint", "success">>>>,
     POP_TOP |-> <<
            <<"Pop">>, <<"DecRef">>>>,
     DUP_TOP |-> <<
            <<"Pop">>, <<"IncRef">>, <<"Push">>, <<"Push">>>>,
     DUP_TOP_TWO |-> <<
            <<"Pop">>, <<"Pop">>, <<"IncRef">>, <<"IncRef">>, <<"Push">>,
            <<"Push">>, <<"Push">>, <<"Push">>>>,
     DUP_TOP_THREE |-> <<
            <<"Pop">>, <<"Pop">>, <<"Pop">>, <<"IncRef">>, <<"IncRef">>,
            <<"IncRef">>, <<"Push">>, <<"Push">>, <<"Push">>, <<"Push">>,
            <<"Push">>, <<"Push">>>>,
     ROT_TWO |-> <<
            <<"Pop">>, <<"Pop">>, <<"Push">>, <<"Push">>>>,
     ROT_THREE |-> <<
            <<"Pop">>, <<"Pop">>, <<"Pop">>, <<"Push">>, <<"Push">>,
            <<"Push">>>>,
     ROT_FOUR |-> <<
            <<"Pop">>, <<"Pop">>, <<"Pop">>, <<"Pop">>, <<"Push">>, <<"Push">>,
            <<"Push">>, <<"Push">>>>,
     LIST_APPEND |-> <<
            <<"Create", "failure", "LIST_APPEND_failure">>,
            <<"Create", "success", "LIST_APPEND_success">>, <<"Pop">>,
            <<"Pop">>, <<"op", "PyList_Append">>, <<"DecRef">>, <<"DecRef">>,
            <<"CreateCondBr", "failure", "success">>,
            <<"SetInsertPoint", "failure">>, <<"Return">>,
            <<"SetInsertPoint", "success">>>>,
     STORE_MAP |-> <<
            <<"Create", "failure", "STORE_MAP_failure">>,
            <<"Create", "success", "STORE_MAP_success">>, <<"Pop">>, <<"Pop">>,
            <<"Pop">>, <<"Push">>, <<"op", "PyDict_SetItem">>, <<"DecRef">>,
            <<"DecRef">>, <<"CreateCondBr", "failure", "success">>,
            <<"SetInsertPoint", "failure">>, <<"Return">>,
            <<"SetInsertPoint", "success">>>>,
     SequenceBuilder |-> <<
            <<"Create", "failure", "SeqBuild_failure">>,
            <<"Create", "loop_start", "SeqBuild_loop_start">>,
            <<"Create", "loop_body", "SeqBuild_loop_body">>,
            <<"Create", "end", "SeqBuild_end">>, <<"op", "create">>,
            <<"CreateCondBr", "failure", "loop_start">>,
            <<"SetInsertPoint", "failure">>, <<"Return">>,
            <<"SetInsertPoint", "loop_start">>, <<"op", "phi">>,
            <<"op", "done">>, <<"CreateCondBr", "end", "loop_body">>,
            <<"SetInsertPoint", "loop_body">>, <<"Pop">>, <<"op", "SET_ITEM">>,
            <<"CreateBr", "loop_start">>, <<"SetInsertPoint", "end">>,
            <<"Push">>>>,
     BUILD_LIST |-> <<
            <<"SequenceBuilder">>>>,
     BUILD_TUPLE |-> <<
            <<"SequenceBuilder">>>>,
     GenericUnaryOp |-> <<
            <<"Create", "failure", "unaryop_failure">>,
            <<"Create", "success", "unaryop_success">>, <<"Pop">>,
            <<"op", "unaryop">>, <<"DecRef">>,
            <<"CreateCondBr", "failure", "success">>,
            <<"SetInsertPoint", "failure">>, <<"Return">>,
            <<"SetInsertPoint", "success">>, <<"Push">>>>,
     UNARY_NOT |-> <<
            <<"Create", "success", "UNARY_NOT_success">>,
            <<"Create", "failure", "UNARY_NOT_failure">>, <<"Pop">>,
            <<"op", "PyObject_IsTrue">>, <<"op", "iserr">>, <<"DecRef">>,
            <<"CreateCondBr", "failure", "success">>,
            <<"SetInsertPoint", "failure">>, <<"Return">>,
            <<"SetInsertPoint", "success">>, <<"op", "select">>, <<"IncRef">>,
            <<"Push">>>>,
     ContainerContains |-> <<
            <<"Create", "err", "ContainerContains_err">>,
            <<"Create", "non_err", "ContainerContains_non_err">>,
            <<"op", "PySequence_Contains">>, <<"DecRef">>, <<"DecRef">>,
            <<"CreateCondBr", "err", "non_err">>, <<"SetInsertPoint", "err">>,
            <<"Return">>, <<"SetInsertPoint", "non_err">>,
            <<"op", "is_nonzero">>>>,
     RichCompare |-> <<
            <<"Create", "failure", "RichCompare_failure">>,
            <<"Create", "success", "RichCompare_success">>,
            <<"op", "PyObject_RichCompare">>, <<"DecRef">>, <<"DecRef">>,
            <<"CreateCondBr", "failure", "success">>,
            <<"SetInsertPoint", "failure">>, <<"Return">>,
            <<"SetInsertPoint", "success">>, <<"Push">>>>,
     ExceptionMatches |-> <<
            <<"Create", "err", "ExceptionMatches_err">>,
            <<"Create", "no_err", "ExceptionMatches_no_err">>,
            <<"op", "_PyEval_CheckedExceptionMatches">>, <<"DecRef">>,
            <<"DecRef">>, <<"CreateCondBr", "err", "no_err">>,
            <<"SetInsertPoint", "err">>, <<"Return">>,
            <<"SetInsertPoint", "no_err">>, <<"op", "is_nonzero">>>>,
     BUILD_MAP |-> <<
            <<"Create", "failure", "BUILD_MAP_failure">>,
            <<"Create", "success", "BUILD_MAP_success">>,
            <<"op", "_PyDict_NewPresized">>,
            <<"CreateCondBr", "failure", "success">>,
            <<"SetInsertPoint", "failure">>, <<"Return">>,
            <<"SetInsertPoint", "success">>, <<"Push">>>>]

\* Slices and sequence unpacking.
SliceRules ==
    [BuildSlice |-> <<
            <<"Create", "failure", "BuildSlice_failure">>,
            <<"Create", "success", "BuildSlice_success">>,
            <<"op", "PySlice_New">>, <<"DecRef">>, <<"DecRef">>, <<"XDecRef">>,
            <<"CreateCondBr", "failure", "success">>,
            <<"SetInsertPoint", "failure">>, <<"Return">>,
            <<"SetInsertPoint", "success">>, <<"Push">>>>,
     BUILD_SLICE_TWO |-> <<
            <<"Pop">>, <<"Pop">>, <<"BuildSlice">>>>,
     BUILD_SLICE_THREE |-> <<
            <<"Pop">>, <<"Pop">>, <<"Pop">>, <<"BuildSlice">>>>,
     ApplySlice |-> <<
            <<"Create", "failure", "ApplySlice_failure">>,
            <<"Create", "success", "ApplySlice_success">>,
            <<"op", "_PyEval_ApplySlice">>, <<"XDecRef">>, <<"XDecRef">>,
            <<"DecRef">>, <<"CreateCondBr", "failure", "success">>,
            <<"SetInsertPoint", "failure">>, <<"Return">>,
            <<"SetInsertPoint", "success">>, <<"Push">>>>,
     SLICE_BOTH |-> <<
            <<"Pop">>, <<"Pop">>, <<"Pop">>, <<"ApplySlice">>>>,
     SLICE_LEFT |-> <<
            <<"Pop">>, <<"Pop">>, <<"ApplySlice">>>>,
     SLICE_RIGHT |-> <<
            <<"Pop">>, <<"Pop">>, <<"ApplySlice">>>>,
     SLICE_NONE |-> <<
            <<"Pop">>, <<"ApplySlice">>>>,
     AssignSlice |-> <<
            <<"Create", "failure", "AssignSlice_failure">>,
            <<"Create", "success", "AssignSlice_success">>,
            <<"op", "_PyEval_AssignSlice">>, <<"XDecRef">>, <<"XDecRef">>,
            <<"XDecRef">>, <<"DecRef">>,
            <<"CreateCondBr", "failure", "success">>,
            <<"SetInsertPoint", "failure">>, <<"Return">>,
            <<"SetInsertPoint", "success">>>>,
     STORE_SLICE_BOTH |-> <<
            <<"Pop">>, <<"Pop">>, <<"Pop">>, <<"Pop">>, <<"AssignSlice">>>>,
     STORE_SLICE_LEFT |-> <<
            <<"Pop">>, <<"Pop">>, <<"Pop">>, <<"AssignSlice">>>>,
     STORE_SLICE_RIGHT |-> <<
            <<"Pop">>, <<"Pop">>, <<"Pop">>, <<"AssignSlice">>>>,
     STORE_SLICE_NONE |-> <<
            <<"Pop">>, <<"Pop">>, <<"AssignSlice">>>>,
     DELETE_SLICE_BOTH |-> <<
            <<"Pop">>, <<"Pop">>, <<"Pop">>, <<"AssignSlice">>>>,
     DELETE_SLICE_LEFT |-> <<
            <<"Pop">>, <<"Pop">>, <<"AssignSlice">>>>,
     DELETE_SLICE_RIGHT |-> <<
            <<"Pop">>, <<"Pop">>, <<"AssignSlice">>>>,
     DELETE_SLICE_NONE |-> <<
            <<"Pop">>, <<"AssignSlice">>>>,
     UNPACK_SEQUENCE |-> <<
            <<"Create", "failure", "UNPACK_SEQUENCE_failure">>,
            <<"Create", "success", "UNPACK_SEQUENCE_success">>, <<"Pop">>,
            <<"op", "load stack_pointer">>, <<"op", "_PyEval_UnpackIterable">>,
            <<"DecRef">>, <<"CreateCondBr", "success", "failure">>,
            <<"SetInsertPoint", "failure">>, <<"Return">>,
            <<"SetInsertPoint", "success">>, <<"op", "store stack_pointer">>>>]

\* The body of a builder method; DecRef has one body per build.
Body(b, name) ==
    IF name = "DecRef" /\ b.refdebug
    THEN BuilderMethods.DecRef_Py_REF_DEBUG
    ELSE (BuilderMethods @@ NameRules @@ ControlRules @@ ObjectRules
          @@ SliceRules)[name]

RECURSIVE Run(_, _)

\* A method body run on builder b0 with its block parameters args; the
\* caller's local variables are untouched.
Scoped(b0, args, body) ==
    CHOOSE r \in {[Run([b EXCEPT !.env = args], body) EXCEPT !.env = b.env] :
                  b \in {b0}} : TRUE

\* One statement of a builder method.
Statement(b, c) ==
    CASE c[1] = "Create" ->
             [Create(b, c[3]) EXCEPT !.env = (c[2] :> (Len(b.blocks) + 1)) @@ b.env]
      [] c[1] = "GetInsertBlock" -> [b EXCEPT !.env = (c[2] :> b.cur) @@ b.env]
      [] c[1] = "SetInsertPoint" -> SetInsertPoint(b, b.env[c[2]])
      [] c[1] = "CreateCondBr" -> CreateCondBr(b, b.env[c[2]], b.env[c[3]])
      [] c[1] = "CreateBr" -> CreateBr(b, b.env[c[2]])
      [] c[1] = "CreateRet" -> CreateRet(b)
      [] c[1] = "FallThroughTo" -> FallThroughTo(b, b.env[c[2]])
      [] c[1] = "Return" -> Emit_Return(b)
      [] c[1] \in {"Push", "Pop", "IncRef"} -> Emit(b, c[1])
      [] c[1] = "op" -> Emit(b, c[2])
      [] OTHER -> Scoped(b, NoArgs, Body(b, c[1]))

\* The statements are run in order; the list is halved rather than walked so
\* that long method bodies evaluate in shallow depth.
Run(b0, body0) ==
    CHOOSE r \in
        {IF body = <<>> THEN b
         ELSE IF Len(body) = 1 THEN Statement(b, body[1])
         ELSE Run(Run(b, SubSeq(body, 1, Len(body) \div 2)),
                  SubSeq(body, Len(body) \div 2 + 1, Len(body))) :
         b \in {b0}, body \in {body0}} : TRUE

\* The constructor: entry and return_block are created, the frame's fields
\* are loaded in entry, and the return block is filled.
LlvmFunctionBuilder(dbg) ==
    LET b0 == Create(Builder(<<>>, 0, dbg), "entry")
        b1 == Create(SetInsertPoint(b0, Len(b0.blocks)), "return_block")
    IN  Scoped(Emit(b1, "load frame fields"),
               "return_block_" :> return_block_,
               BuilderMethods.FillReturnBlock)

\* The rule of opcode op, called with the blocks of its jump target and of
\* the next instruction.
Lower(b, op, target, fallthrough) ==
    Scoped(b, ("target" :> target) @@ ("fallthrough" :> fallthrough),
           Body(b, op))

\* COMPARE_OP switches on its operand while it lowers.
COMPARE_OP_body(cmp_op) ==
    LET bool == <<<<"op", "select">>, <<"IncRef">>, <<"Push">>>>
    IN  <<<<"Pop">>, <<"Pop">>>> \o
        CASE cmp_op \in {PyCmp_IS, PyCmp_IS_NOT} ->
                 <<<<"op", "icmp">>, <<"DecRef">>, <<"DecRef">>>> \o bool
          [] cmp_op = PyCmp_IN -> <<<<"ContainerContains">>>> \o bool
          [] cmp_op = PyCmp_NOT_IN ->
                 <<<<"ContainerContains">>, <<"op", "icmp">>>> \o bool
          [] cmp_op = PyCmp_EXC_MATCH -> <<<<"ExceptionMatches">>>> \o bool
          [] cmp_op \in {PyCmp_EQ, PyCmp_NE, PyCmp_LT, PyCmp_LE, PyCmp_GT,
                         PyCmp_GE} -> <<<<"RichCompare">>>>

\* ---------------------------------------------------------------- the frame
\* Number of references to object o held in sequence or function f.
Count(f, o) == Cardinality({i \in DOMAIN f : f[i] = o})

\* Value stacks a frame is entered with: the empty stack, every stack of one
\* owned reference, an object held twice, and the stacks of distinct
\* neighbours of every depth.
Ramp(a, d) == [i \in 1..d |-> ((a + i) % NumObjs) + 1]

InitStacks ==
    UNION {[1..d -> Objects] : d \in 0..1}
    \cup {<<a, a>> : a \in Objects}
    \cup {Ramp(a, d) : a \in Objects, d \in 2..MaxStack}

\* Fast locals a frame is entered with: unbound, or bound to an object.
InitLocals == [LocalIdx -> {Null, NumObjs - 1}]

InitFrames ==
    {<<s, l>> \in InitStacks \X InitLocals :
        Len(s) <= 1 \/ \A i \in LocalIdx : l[i] = Null}

\* The runtime keeps a reference to each singleton, co_consts one to each
\* constant; every other reference is held by the frame.
RefInit(s, l) ==
    [o \in Objects |->
        (IF o \in {PyTrue, PyFalse} THEN 1 ELSE 0)
        + Count(s, o) + Count(l, o) + Count(co_consts, o)]

InitFrame(s, l) ==
    /\ mem = [i \in Slots |-> IF i < Len(s) THEN s[i + 1] ELSE Null]
    /\ sp = StackBottom + Len(s)
    /\ locals = l
    /\ refcnt = RefInit(s, l)
    /\ entry = [stack |-> s, locals |-> l, refcnt |-> RefInit(s, l)]
    /\ reftotal = 0
    /\ retval = Uninit
    /\ returned = Uninit
    /\ trace = <<>>
    /\ lastOp = [op |-> "entry", arg |-> 0]
    /\ nsteps = 0
    /\ ip = 1
    /\ blocks = LlvmFunctionBuilder(refdebug).blocks
    /\ cur = LlvmFunctionBuilder(refdebug).cur
    /\ StringOffset = <<>>
    /\ AggregateString = <<>>
    /\ typeNames = <<>>
    /\ threads = <<>>

Init ==
    /\ code = <<>>
    /\ refdebug = FALSE
    /\ pc = "run"
    /\ \E f \in InitFrames : InitFrame(f[1], f[2])

\* ------------------------------------------------------------- the driver
\* The driver hands the rule of the next opcode the current state.
Fetch(op, arg) ==
    /\ pc = "run"
    /\ IF code = <<>>
       THEN nsteps < MaxSteps
       ELSE ip <= Len(code) /\ code[ip] = [op |-> op, arg |-> arg]

Start == IF code = <<>> THEN [State EXCEPT !.trace = <<>>] ELSE State

Finish(m, op, arg) ==
    /\ Apply(m)
    /\ lastOp' = [op |-> op, arg |-> arg]
    /\ nsteps' = nsteps + 1
    /\ ip' = IF m.br = "target" THEN arg ELSE ip + 1
    /\ UNCHANGED <<code, returned, entry, blocks, cur,
                   StringOffset, AggregateString, typeNames, threads>>

Depth == sp - StackBottom
Room(n) == sp + n <= MaxStack

Do_LOAD_CONST ==
    \E i \in ConstIdx :
        /\ Fetch("LOAD_CONST", i) /\ Room(1)
        /\ Finish(LOAD_CONST(Start, i), "LOAD_CONST", i)

Do_LOAD_FAST ==
    \E i \in LocalIdx :
        /\ Fetch("LOAD_FAST", i) /\ Room(1)
        /\ Finish(LOAD_FAST(Start, i), "LOAD_FAST", i)

Do_STORE_FAST ==
    \E i \in LocalIdx :
        /\ Fetch("STORE_FAST", i) /\ Depth >= 1
        /\ Finish(STORE_FAST(Start, i), "STORE_FAST", i)

Do_DELETE_FAST ==
    \E i \in LocalIdx :
        /\ Fetch("DELETE_FAST", i)
        /\ Finish(DELETE_FAST(Start, i), "DELETE_FAST", i)

Do_RETURN_VALUE ==
    /\ Fetch("RETURN_VALUE", 0) /\ Depth >= 1
    /\ Finish(RETURN_VALUE(Start), "RETURN_VALUE", 0)

Do_BINOP ==
    \E op \in DOMAIN BINOP_METH, result \in Results :
        /\ Fetch(op, 0) /\ Depth >= 2
        /\ Finish(GenericBinOp(Start, BINOP_METH[op], result), op, 0)

Do_POWOP ==
    \E op \in DOMAIN POW_METH, result \in Results :
        /\ Fetch(op, 0) /\ Depth >= 2
        /\ Finish(GenericPowOp(Start, POW_METH[op], result), op, 0)

Do_UNARYOP ==
    \E op \in DOMAIN UNARYOP_METH, result \in Results :
        /\ Fetch(op, 0) /\ Depth >= 1
        /\ Finish(GenericUnaryOp(Start, UNARYOP_METH[op], result), op, 0)

Do_POP_TOP ==
    /\ Fetch("POP_TOP", 0) /\ Depth >= 1
    /\ Finish(POP_TOP(Start), "POP_TOP", 0)

\* Objects a dictionary can hand out as a borrowed reference: live ones.
Live == {o \in Objects : refcnt[o] > 0}

Do_LOAD_GLOBAL ==
    \E i \in NameIdx, global \in Live \cup {Null} :
        \E builtin \in IF global = Null THEN Live \cup {Null} ELSE {Null} :
            /\ Fetch("LOAD_GLOBAL", i) /\ Room(1)
            /\ Finish(LOAD_GLOBAL(Start, i, global, builtin), "LOAD_GLOBAL", i)

Do_STORE_GLOBAL ==
    \E i \in NameIdx, result \in StatusVals :
        /\ Fetch("STORE_GLOBAL", i) /\ Depth >= 1
        /\ Finish(STORE_GLOBAL(Start, i, result), "STORE_GLOBAL", i)

Do_DELETE_GLOBAL ==
    \E i \in NameIdx, result \in StatusVals :
        /\ Fetch("DELETE_GLOBAL", i)
        /\ Finish(DELETE_GLOBAL(Start, i, result), "DELETE_GLOBAL", i)

Do_LOAD_DEREF ==
    \E i \in CellIdx, value \in Results :
        \E was_err \in IF value = Null THEN {Null, ExcRef} ELSE {Null} :
            /\ Fetch("LOAD_DEREF", i) /\ Room(1)
            /\ Finish(LOAD_DEREF(Start, i, value, was_err), "LOAD_DEREF", i)

Do_STORE_DEREF ==
    \E i \in CellIdx, result \in StatusVals :
        /\ Fetch("STORE_DEREF", i) /\ Depth >= 1
        /\ Finish(STORE_DEREF(Start, i, result), "STORE_DEREF", i)

Do_LOAD_ATTR ==
    \E i \in NameIdx, result \in Results :
        /\ Fetch("LOAD_ATTR", i) /\ Depth >= 1
        /\ Finish(LOAD_ATTR(Start, i, result), "LOAD_ATTR", i)

Do_STORE_ATTR ==
    \E i \in NameIdx, result \in StatusVals :
        /\ Fetch("STORE_ATTR", i) /\ Depth >= 2
        /\ Finish(STORE_ATTR(Start, i, result), "STORE_ATTR", i)

Do_DELETE_ATTR ==
    \E i \in NameIdx, result \in StatusVals :
        /\ Fetch("DELETE_ATTR", i) /\ Depth >= 1
        /\ Finish(DELETE_ATTR(Start, i, result), "DELETE_ATTR", i)

Do_GET_ITER ==
    \E iter \in Results :
        /\ Fetch("GET_ITER", 0) /\ Depth >= 1
        /\ Finish(GET_ITER(Start, iter), "GET_ITER", 0)

Do_FOR_ITER ==
    \E next \in Results :
        \E err_occurred \in IF next = Null THEN {Null, ExcRef} ELSE {Null} :
            \E was_stopiteration \in IF err_occurred = Null THEN {0}
                                                            ELSE {0, 1} :
                /\ Fetch("FOR_ITER", 0) /\ Depth >= 1 /\ Room(1)
                /\ Finish(FOR_ITER(Start, next, err_occurred,
                                   was_stopiteration), "FOR_ITER", 0)

Do_STORE_SUBSCR ==
    \E result \in StatusVals :
        /\ Fetch("STORE_SUBSCR", 0) /\ Depth >= 3
        /\ Finish(STORE_SUBSCR(Start, result), "STORE_SUBSCR", 0)

Do_DELETE_SUBSCR ==
    \E result \in StatusVals :
        /\ Fetch("DELETE_SUBSCR", 0) /\ Depth >= 2
        /\ Finish(DELETE_SUBSCR(Start, result), "DELETE_SUBSCR", 0)

Do_DUP_TOP ==
    /\ Fetch("DUP_TOP", 0) /\ Depth >= 1 /\ Room(1)
    /\ Finish(DUP_TOP(Start), "DUP_TOP", 0)

Do_DUP_TOP_TWO ==
    /\ Fetch("DUP_TOP_TWO", 0) /\ Depth >= 2 /\ Room(2)
    /\ Finish(DUP_TOP_TWO(Start), "DUP_TOP_TWO", 0)

Do_DUP_TOP_THREE ==
    /\ Fetch("DUP_TOP_THREE", 0) /\ Depth >= 3 /\ Room(3)
    /\ Finish(DUP_TOP_THREE(Start), "DUP_TOP_THREE", 0)

Do_ROT_TWO ==
    /\ Fetch("ROT_TWO", 0) /\ Depth >= 2
    /\ Finish(ROT_TWO(Start), "ROT_TWO", 0)

Do_ROT_THREE ==
    /\ Fetch("ROT_THREE", 0) /\ Depth >= 3
    /\ Finish(ROT_THREE(Start), "ROT_THREE", 0)

Do_ROT_FOUR ==
    /\ Fetch("ROT_FOUR", 0) /\ Depth >= 4
    /\ Finish(ROT_FOUR(Start), "ROT_FOUR", 0)

Do_LIST_APPEND ==
    \E result \in StatusVals :
        /\ Fetch("LIST_APPEND", 0) /\ Depth >= 2
        /\ Finish(LIST_APPEND(Start, result), "LIST_APPEND", 0)

Do_STORE_MAP ==
    \E result \in StatusVals :
        /\ Fetch("STORE_MAP", 0) /\ Depth >= 3
        /\ Finish(STORE_MAP(Start, result), "STORE_MAP", 0)

Do_BUILD_LIST ==
    \E size \in 0..MaxSize, seq \in Results :
        /\ Fetch("BUILD_LIST", size) /\ Depth >= size /\ Room(1 - size)
        /\ Finish(BUILD_LIST(Start, size, seq), "BUILD_LIST", size)

Do_BUILD_TUPLE ==
    \E size \in 0..MaxSize, seq \in Results :
        /\ Fetch("BUILD_TUPLE", size) /\ Depth >= size /\ Room(1 - size)
        /\ Finish(BUILD_TUPLE(Start, size, seq), "BUILD_TUPLE", size)

Do_BUILD_MAP ==
    \E size \in 0..MaxSize, result \in Results :
        /\ Fetch("BUILD_MAP", size) /\ Room(1)
        /\ Finish(BUILD_MAP(Start, size, result), "BUILD_MAP", size)

Do_UNARY_NOT ==
    \E result \in IsTrueVals :
        /\ Fetch("UNARY_NOT", 0) /\ Depth >= 1
        /\ Finish(UNARY_NOT(Start, result), "UNARY_NOT", 0)

Do_COMPARE_OP ==
    \E cmp_op \in PyCmp_LT..PyCmp_EXC_MATCH :
        \E ires \in IF cmp_op \in {PyCmp_IN, PyCmp_NOT_IN, PyCmp_EXC_MATCH}
                    THEN TruthVals ELSE {0},
           ores \in IF cmp_op <= PyCmp_GE THEN Results ELSE {Null} :
            /\ Fetch("COMPARE_OP", cmp_op) /\ Depth >= 2
            /\ Finish(COMPARE_OP(Start, cmp_op, ires, ores),
                      "COMPARE_OP", cmp_op)

Do_UNPACK_SEQUENCE ==
    \E size \in 0..MaxSize, result \in UnpackVals :
        \E items \in IF result = 0 THEN {<<>>} ELSE [1..size -> Items] :
            /\ Fetch("UNPACK_SEQUENCE", size) /\ Depth >= 1
            /\ Room(size - 1)
            /\ Finish(UNPACK_SEQUENCE(Start, size, result, items),
                      "UNPACK_SEQUENCE", size)

Do_BUILD_SLICE ==
    \E result \in Results :
        \/ /\ Fetch("BUILD_SLICE_TWO", 0) /\ Depth >= 2
           /\ Finish(BUILD_SLICE_TWO(Start, result), "BUILD_SLICE_TWO", 0)
        \/ /\ Fetch("BUILD_SLICE_THREE", 0) /\ Depth >= 3
           /\ Finish(BUILD_SLICE_THREE(Start, result), "BUILD_SLICE_THREE", 0)

Do_SLICE ==
    \E result \in Results :
        \/ /\ Fetch("SLICE_NONE", 0) /\ Depth >= 1
           /\ Finish(SLICE_NONE(Start, result), "SLICE_NONE", 0)
        \/ /\ Fetch("SLICE_LEFT", 0) /\ Depth >= 2
           /\ Finish(SLICE_LEFT(Start, result), "SLICE_LEFT", 0)
        \/ /\ Fetch("SLICE_RIGHT", 0) /\ Depth >= 2
           /\ Finish(SLICE_RIGHT(Start, result), "SLICE_RIGHT", 0)
        \/ /\ Fetch("SLICE_BOTH", 0) /\ Depth >= 3
           /\ Finish(SLICE_BOTH(Start, result), "SLICE_BOTH", 0)

Do_STORE_SLICE ==
    \E result \in StatusVals :
        \/ /\ Fetch("STORE_SLICE_NONE", 0) /\ Depth >= 2
           /\ Finish(STORE_SLICE_NONE(Start, result), "STORE_SLICE_NONE", 0)
        \/ /\ Fetch("STORE_SLICE_LEFT", 0) /\ Depth >= 3
           /\ Finish(STORE_SLICE_LEFT(Start, result), "STORE_SLICE_LEFT", 0)
        \/ /\ Fetch("STORE_SLICE_RIGHT", 0) /\ Depth >= 3
           /\ Finish(STORE_SLICE_RIGHT(Start, result), "STORE_SLICE_RIGHT", 0)
        \/ /\ Fetch("STORE_SLICE_BOTH", 0) /\ Depth >= 4
           /\ Finish(STORE_SLICE_BOTH(Start, result), "STORE_SLICE_BOTH", 0)

Do_DELETE_SLICE ==
    \E result \in StatusVals :
        \/ /\ Fetch("DELETE_SLICE_NONE", 0) /\ Depth >= 1
           /\ Finish(DELETE_SLICE_NONE(Start, result), "DELETE_SLICE_NONE", 0)
        \/ /\ Fetch("DELETE_SLICE_LEFT", 0) /\ Depth >= 2
           /\ Finish(DELETE_SLICE_LEFT(Start, result), "DELETE_SLICE_LEFT", 0)
        \/ /\ Fetch("DELETE_SLICE_RIGHT", 0) /\ Depth >= 2
           /\ Finish(DELETE_SLICE_RIGHT(Start, result),
                     "DELETE_SLICE_RIGHT", 0)
        \/ /\ Fetch("DELETE_SLICE_BOTH", 0) /\ Depth >= 3
           /\ Finish(DELETE_SLICE_BOTH(Start, result), "DELETE_SLICE_BOTH", 0)

Do_CALL_FUNCTION ==
    \E num_args \in 0..MaxArgs, result \in Results :
        /\ Fetch("CALL_FUNCTION", num_args) /\ Depth >= num_args + 1
        /\ Finish(CALL_FUNCTION(Start, num_args, result),
                  "CALL_FUNCTION", num_args)

Do_CALL_FUNCTION_VAR_KW ==
    \E num_args \in 0..MaxArgs, extra \in 1..2, result \in Results :
        /\ Fetch("CALL_FUNCTION_VAR_KW", num_args)
        /\ Depth >= num_args + 1 + extra
        /\ Finish(CALL_FUNCTION_VAR_KW(Start, num_args, extra, result),
                  "CALL_FUNCTION_VAR_KW", num_args)

Do_JUMP_ABSOLUTE ==
    /\ Fetch("JUMP_ABSOLUTE", 0)
    /\ Finish(JUMP_ABSOLUTE(Start), "JUMP_ABSOLUTE", 0)

Do_POP_JUMP_IF_FALSE ==
    \E istrue_result \in IsTrueVals :
        /\ Fetch("POP_JUMP_IF_FALSE", 0) /\ Depth >= 1
        /\ mem[sp - 1] \notin {PyTrue, PyFalse} \/ istrue_result = 0
        /\ Finish(POP_JUMP_IF_FALSE(Start, istrue_result),
                  "POP_JUMP_IF_FALSE", 0)

Do_POP_JUMP_IF_TRUE ==
    \E istrue_result \in IsTrueVals :
        /\ Fetch("POP_JUMP_IF_TRUE", 0) /\ Depth >= 1
        /\ mem[sp - 1] \notin {PyTrue, PyFalse} \/ istrue_result = 0
        /\ Finish(POP_JUMP_IF_TRUE(Start, istrue_result),
                  "POP_JUMP_IF_TRUE", 0)

Do_JUMP_IF_FALSE_OR_POP ==
    \E istrue_result \in IsTrueVals :
        /\ Fetch("JUMP_IF_FALSE_OR_POP", 0) /\ Depth >= 1
        /\ mem[sp - 1] \notin {PyTrue, PyFalse} \/ istrue_result = 0
        /\ Finish(JUMP_IF_FALSE_OR_POP(Start, istrue_result),
                  "JUMP_IF_FALSE_OR_POP", 0)

Do_JUMP_IF_TRUE_OR_POP ==
    \E istrue_result \in IsTrueVals :
        /\ Fetch("JUMP_IF_TRUE_OR_POP", 0) /\ Depth >= 1
        /\ mem[sp - 1] \notin {PyTrue, PyFalse} \/ istrue_result = 0
        /\ Finish(JUMP_IF_TRUE_OR_POP(Start, istrue_result),
                  "JUMP_IF_TRUE_OR_POP", 0)

Do_SETUP_LOOP ==
    /\ Fetch("SETUP_LOOP", 0)
    /\ Finish(SETUP_LOOP(Start), "SETUP_LOOP", 0)

Do_POP_BLOCK ==
    /\ Fetch("POP_BLOCK", 0)
    /\ Finish(POP_BLOCK(Start), "POP_BLOCK", 0)

Do_RAISE_VARARGS ==
    \/ /\ Fetch("RAISE_VARARGS_ZERO", 0)
       /\ Finish(RAISE_VARARGS_ZERO(Start), "RAISE_VARARGS_ZERO", 0)
    \/ /\ Fetch("RAISE_VARARGS_ONE", 0) /\ Depth >= 1
       /\ Finish(RAISE_VARARGS_ONE(Start), "RAISE_VARARGS_ONE", 0)
    \/ /\ Fetch("RAISE_VARARGS_TWO", 0) /\ Depth >= 2
       /\ Finish(RAISE_VARARGS_TWO(Start), "RAISE_VARARGS_TWO", 0)
    \/ /\ Fetch("RAISE_VARARGS_THREE", 0) /\ Depth >= 3
       /\ Finish(RAISE_VARARGS_THREE(Start), "RAISE_VARARGS_THREE", 0)

\* ------------------------------------------------------- the return block
\* A drain loop that stops one entry early.
finished_popping_early(m) == m.sp <= StackBottom + 1

\* A drain loop that stops only when the stack pointer is exactly at the
\* bottom.
finished_popping_equal(m) == m.sp = StackBottom

\* pop_loop: finished_popping = stack_pointer <=u stack_bottom
finished_popping(m) == m.sp <= StackBottom

\* pop_stack: XDecRef(Pop()); br pop_loop
PopStack ==
    /\ pc = "return_block"
    /\ ~finished_popping(State)
    /\ LET m1 == Pop(State) IN Apply(XDecRef(m1, m1.top))
    /\ UNCHANGED <<returned, lastOp, nsteps, code, ip, entry, blocks, cur,
                   StringOffset, AggregateString, typeNames, threads>>

\* do_return: ret (load retval_addr_)
DoReturn ==
    /\ pc = "return_block"
    /\ finished_popping(State)
    /\ returned' = retval
    /\ pc' = "done"
    /\ UNCHANGED <<mem, sp, locals, refcnt, reftotal, refdebug, retval, trace,
                   lastOp, nsteps, code, ip, entry, blocks, cur,
                   StringOffset, AggregateString, typeNames, threads>>

\* One opcode lowered by its rule and run.
RunRule ==
    \/ Do_LOAD_CONST
    \/ Do_LOAD_GLOBAL
    \/ Do_STORE_GLOBAL
    \/ Do_DELETE_GLOBAL
    \/ Do_LOAD_FAST
    \/ Do_LOAD_DEREF
    \/ Do_STORE_DEREF
    \/ Do_LOAD_ATTR
    \/ Do_STORE_ATTR
    \/ Do_DELETE_ATTR
    \/ Do_CALL_FUNCTION
    \/ Do_CALL_FUNCTION_VAR_KW
    \/ Do_JUMP_ABSOLUTE
    \/ Do_POP_JUMP_IF_FALSE
    \/ Do_POP_JUMP_IF_TRUE
    \/ Do_JUMP_IF_FALSE_OR_POP
    \/ Do_JUMP_IF_TRUE_OR_POP
    \/ Do_STORE_FAST
    \/ Do_DELETE_FAST
    \/ Do_SETUP_LOOP
    \/ Do_GET_ITER
    \/ Do_FOR_ITER
    \/ Do_POP_BLOCK
    \/ Do_RETURN_VALUE
    \/ Do_RAISE_VARARGS
    \/ Do_STORE_SUBSCR
    \/ Do_BINOP
    \/ Do_POWOP
    \/ Do_DELETE_SUBSCR
    \/ Do_POP_TOP
    \/ Do_DUP_TOP
    \/ Do_DUP_TOP_TWO
    \/ Do_DUP_TOP_THREE
    \/ Do_ROT_TWO
    \/ Do_ROT_THREE
    \/ Do_ROT_FOUR
    \/ Do_LIST_APPEND
    \/ Do_STORE_MAP
    \/ Do_BUILD_LIST
    \/ Do_BUILD_TUPLE
    \/ Do_UNARYOP
    \/ Do_UNARY_NOT
    \/ Do_COMPARE_OP
    \/ Do_BUILD_MAP
    \/ Do_BUILD_SLICE
    \/ Do_SLICE
    \/ Do_STORE_SLICE
    \/ Do_DELETE_SLICE
    \/ Do_UNPACK_SEQUENCE

Next ==
    \/ RunRule
    \/ PopStack
    \/ DoReturn

Spec == Init /\ [][Next]_vars

\* ------------------------------------------------- the value stack alone
\* Push and Pop applied in any order to the stack of a frame; the trace
\* keeps every access.
InitStack ==
    /\ code = <<>>
    /\ refdebug = FALSE
    /\ pc = "stack"
    /\ \E s \in InitStacks : InitFrame(s, [i \in LocalIdx |-> Null])

StackOp(m, op, arg) ==
    /\ Apply(m)
    /\ lastOp' = [op |-> op, arg |-> arg]
    /\ nsteps' = nsteps + 1
    /\ UNCHANGED <<returned, code, ip, entry, blocks, cur,
                   StringOffset, AggregateString, typeNames, threads>>

Do_Push ==
    \E v \in Val :
        /\ pc = "stack" /\ nsteps < StackOps /\ Room(1)
        /\ StackOp(Push(State, v), "Push", v)

Do_Pop ==
    /\ pc = "stack" /\ nsteps < StackOps /\ Depth >= 1
    /\ StackOp(Pop(State), "Pop", 0)

NextStack == Do_Push \/ Do_Pop

SpecStack == InitStack /\ [][NextStack]_vars

\* ---------------------------------------------- reference counting alone
\* IncRef, DecRef and XDecRef applied in any order by one thread, with and
\* without Py_REF_DEBUG.
InitRefs ==
    /\ code = <<>>
    /\ pc = "refs"
    /\ refdebug \in BOOLEAN
    /\ mem = [i \in Slots |-> Null]
    /\ sp = StackBottom
    /\ locals = [i \in LocalIdx |-> Null]
    /\ refcnt \in [Objects -> 1..MaxRef]
    /\ entry = [stack |-> <<>>, locals |-> locals, refcnt |-> refcnt]
    /\ reftotal = 0
    /\ retval = Uninit
    /\ returned = Uninit
    /\ trace = <<>>
    /\ lastOp = [op |-> "entry", arg |-> 0]
    /\ nsteps = 0
    /\ ip = 1
    /\ blocks = LlvmFunctionBuilder(refdebug).blocks
    /\ cur = LlvmFunctionBuilder(refdebug).cur
    /\ StringOffset = <<>>
    /\ AggregateString = <<>>
    /\ typeNames = <<>>
    /\ threads = <<>>

Do_IncRef ==
    \E o \in Live :
        /\ pc = "refs" /\ nsteps < RefOps
        /\ StackOp(IncRef(State, o), "IncRef", o)

Do_DecRef ==
    \E o \in Objects :
        /\ pc = "refs" /\ nsteps < RefOps /\ refcnt[o] >= 0
        /\ StackOp(DecRef(State, o), "DecRef", o)

Do_XDecRef ==
    \E v \in Val :
        /\ pc = "refs" /\ nsteps < RefOps
        /\ v # Null => refcnt[v] >= 0
        /\ StackOp(XDecRef(State, v), "XDecRef", v)

NextRefs == Do_IncRef \/ Do_DecRef \/ Do_XDecRef

SpecRefs == InitRefs /\ [][NextRefs]_vars

\* ------------------------------------------------------ whole functions
\* The frame runs one of the documented opcode sequences from its first
\* opcode to the return; the trace keeps everything the function did.
Ins(op, arg) == [op |-> op, arg |-> arg]

ProgAdd ==
    <<Ins("LOAD_FAST", 0), Ins("LOAD_FAST", 1), Ins("BINARY_ADD", 0),
      Ins("RETURN_VALUE", 0)>>

ProgStore(i, j) == <<Ins("LOAD_CONST", i), Ins("STORE_FAST", j)>>

Programs == {ProgAdd} \cup {ProgStore(i, j) : i \in ConstIdx, j \in LocalIdx}

ProgFrames ==
    {<<s, l>> \in InitStacks \X [LocalIdx -> {Null, NumObjs - 1, NumObjs}] :
        Len(s) <= 1}

InitProg ==
    /\ code \in Programs
    /\ refdebug = FALSE
    /\ pc = "run"
    /\ \E f \in ProgFrames : InitFrame(f[1], f[2])

NextProg ==
    \/ Do_LOAD_FAST
    \/ Do_LOAD_CONST
    \/ Do_STORE_FAST
    \/ Do_BINOP
    \/ Do_RETURN_VALUE
    \/ PopStack
    \/ DoReturn

SpecProg == InitProg /\ [][NextProg]_vars

\* ------------------------------------------------------- reading the trace
Min(S) == CHOOSE x \in S : \A y \in S : x <= y

\* Positions of the stores to the return slot followed by br return_block.
RetAt == {i \in DOMAIN trace : trace[i].k = "ret"}

\* What the rule did before it left for the return block, and what the
\* return block did.
RulePart == IF RetAt = {} THEN trace ELSE SubSeq(trace, 1, Min(RetAt) - 1)
DrainPart ==
    IF RetAt = {} THEN <<>> ELSE SubSeq(trace, Min(RetAt) + 1, Len(trace))

KindVals(t, kind) ==
    LET u == SelectSeq(t, LAMBDA e : e.k = kind)
    IN  [i \in 1..Len(u) |-> u[i].v]

Times(q, v) == Cardinality({i \in DOMAIN q : q[i] = v})

NonNull(q) == SelectSeq(q, LAMBDA v : v # Null)

\* The entries on the stack when the rule branched to the return block,
\* uppermost first.
ExitStack ==
    LET top == trace[Min(RetAt)].at
    IN  [i \in 1..(top - StackBottom) |-> mem[top - i]]

\* A step that runs one rule.
RuleStep == nsteps' = nsteps + 1

\* ------------------------------------------------------------------ claims

\* C1: every exit of the function goes through the return block, which pops
\* and releases (null entries excepted) every entry above the frame's stack
\* bottom, uppermost first, and only then returns the value of the return
\* slot; no entry that was on the stack at the exit stays unreleased.
C1_ReturnBlockDrains ==
    /\ pc = "run" => returned = Uninit /\ RetAt = {}
    /\ pc # "run" => Cardinality(RetAt) = 1 /\ retval = trace[Min(RetAt)].v
    /\ pc = "return_block" => returned = Uninit
    /\ pc = "done" =>
          /\ sp = StackBottom
          /\ returned = retval
          /\ KindVals(DrainPart, "pop") = ExitStack
          /\ KindVals(DrainPart, "decref") = NonNull(ExitStack)

C1_Witness ==
    /\ pc = "done"
    /\ lastOp.op = "RETURN_VALUE"
    /\ Len(KindVals(DrainPart, "decref")) = 2
    /\ returned \in Objects

\* The entry points by the shape of their result.
PtrFuncs ==
    {BINOP_METH[o] : o \in DOMAIN BINOP_METH}
    \cup {POW_METH[o] : o \in DOMAIN POW_METH}
    \cup {UNARYOP_METH[o] : o \in DOMAIN UNARYOP_METH}
    \cup {"PyCell_Get", "PyObject_GetAttr", "PyObject_GetIter", "PyList_New",
          "PyTuple_New", "_PyDict_NewPresized", "PySlice_New",
          "_PyEval_ApplySlice", "PyObject_RichCompare",
          "_PyEval_CallFunction"}

StatusFuncs ==
    {"PyDict_SetItem", "PyDict_DelItem", "PyCell_Set", "PyObject_SetAttr",
     "PyObject_SetItem", "PyObject_DelItem", "PyList_Append",
     "_PyEval_AssignSlice"}

\* The failure test the rule emits after the call e.
FailTest(e) ==
    \/ e.f \in PtrFuncs /\ e.res = Null
    \/ e.f \in StatusFuncs /\ e.res # 0
    \/ e.f \in {"PyObject_IsTrue", "PySequence_Contains"} /\ e.res < 0
    \/ e.f = "_PyEval_UnpackIterable" /\ e.res = 0
    \/ e.f = "_PyEval_CallFunctionVarKw" /\ e.res # Null
    \/ e.f = "_PyEval_CheckedExceptionMatches" /\ e.res = 0
    \/ e.f = "PyDict_GetItem" /\ e.args[1] = BuiltinsRef /\ e.res = Null
    \/ e.f = "PyErr_ExceptionMatches" /\ e.res = 0

Failed ==
    {i \in DOMAIN RulePart :
        RulePart[i].k = "call" /\ FailTest(RulePart[i])}

\* C2: when the failure test a rule emits after a runtime call fires, the
\* rule stores null in the return slot and branches to the return block, the
\* function returns null, and nothing of the success continuation runs: no
\* push, acquire, store or branch to a successor follows the failed call.
C2_FailureTakesErrorReturn ==
    Failed # {} =>
        /\ pc # "run"
        /\ retval = Null
        /\ pc = "done" => returned = Null
        /\ \A i \in Failed, j \in DOMAIN RulePart :
              j > i => RulePart[j].k \notin
                           {"push", "incref", "setitem", "setlocal", "br"}

C2_Witness ==
    /\ pc = "done"
    /\ lastOp.op = "BINARY_SUBSCR"
    /\ Failed # {}
    /\ returned = Null
    /\ KindVals(RulePart, "push") = <<>>

\* The rules C3 is about; of COMPARE_OP the operators lowered through
\* RichCompare and ContainerContains.
C3Rules ==
    DOMAIN BINOP_METH \cup DOMAIN POW_METH \cup DOMAIN UNARYOP_METH
    \cup {"LOAD_ATTR", "STORE_ATTR", "DELETE_ATTR", "STORE_SUBSCR",
          "DELETE_SUBSCR", "STORE_GLOBAL", "STORE_DEREF", "LIST_APPEND",
          "GET_ITER", "POP_TOP"}

InC3 ==
    \/ lastOp.op \in C3Rules
    \/ lastOp.op = "COMPARE_OP"
         /\ lastOp.arg \in {PyCmp_LT, PyCmp_LE, PyCmp_EQ, PyCmp_NE, PyCmp_GT,
                            PyCmp_GE, PyCmp_IN, PyCmp_NOT_IN}

\* C3: in these rules every popped operand is released exactly once, on the
\* success path and on the failure path alike: each object is released as
\* many times as it was popped.
C3_OperandsReleasedOnce ==
    InC3 =>
        /\ KindVals(RulePart, "pop") # <<>>
        /\ \A v \in Val :
              Times(KindVals(RulePart, "decref"), v)
                  = Times(KindVals(RulePart, "pop"), v)

C3_Witness ==
    /\ lastOp.op = "STORE_SUBSCR"
    /\ pc = "done"
    /\ returned = Null
    /\ Len(KindVals(RulePart, "decref")) = 3

\* The documented change of stack depth of a rule.
ArityDelta(o) ==
    CASE o.op \in {"LOAD_CONST", "LOAD_FAST", "LOAD_GLOBAL", "LOAD_DEREF",
                   "BUILD_MAP", "DUP_TOP"} -> 1
      [] o.op = "DUP_TOP_TWO" -> 2
      [] o.op = "DUP_TOP_THREE" -> 3
      [] o.op \in DOMAIN UNARYOP_METH
                  \cup {"UNARY_NOT", "GET_ITER", "LOAD_ATTR", "ROT_TWO",
                        "ROT_THREE", "ROT_FOUR"} -> 0
      [] o.op \in DOMAIN BINOP_METH \cup DOMAIN POW_METH
                  \cup {"COMPARE_OP", "POP_TOP", "STORE_FAST", "STORE_GLOBAL",
                        "STORE_DEREF", "DELETE_ATTR", "RETURN_VALUE"} -> -1
      [] o.op \in {"STORE_ATTR", "DELETE_SUBSCR", "LIST_APPEND",
                   "STORE_MAP"} -> -2
      [] o.op = "STORE_SUBSCR" -> -3
      [] o.op \in {"BUILD_LIST", "BUILD_TUPLE"} -> 1 - o.arg
      [] o.op = "UNPACK_SEQUENCE" -> o.arg - 1

HasArityDelta(o) ==
    o.op \in DOMAIN UNARYOP_METH \cup DOMAIN BINOP_METH \cup DOMAIN POW_METH
             \cup {"LOAD_CONST", "LOAD_FAST", "LOAD_GLOBAL", "LOAD_DEREF",
                   "BUILD_MAP", "DUP_TOP", "DUP_TOP_TWO", "DUP_TOP_THREE",
                   "UNARY_NOT", "GET_ITER", "LOAD_ATTR", "ROT_TWO",
                   "ROT_THREE", "ROT_FOUR", "COMPARE_OP", "POP_TOP",
                   "STORE_FAST", "STORE_GLOBAL", "STORE_DEREF", "DELETE_ATTR",
                   "RETURN_VALUE", "STORE_ATTR", "DELETE_SUBSCR",
                   "LIST_APPEND", "STORE_MAP", "STORE_SUBSCR", "BUILD_LIST",
                   "BUILD_TUPLE", "UNPACK_SEQUENCE"}

\* The rule that has just run did not take the error return.
Succeeded(o, p) == p = "run" \/ o.op = "RETURN_VALUE"

\* C4: on the success path of a rule the stack depth changes by exactly the
\* opcode's arity delta.
C4_ArityDelta ==
    [][RuleStep /\ HasArityDelta(lastOp') /\ Succeeded(lastOp', pc')
           => sp' - sp = ArityDelta(lastOp')]_vars

C4_Witness ==
    /\ lastOp = [op |-> "UNPACK_SEQUENCE", arg |-> 2]
    /\ pc = "run"
    /\ sp = Len(entry.stack) + 1
    /\ KindVals(trace, "pop") = <<entry.stack[Len(entry.stack)]>>

\* What the last step appended to the trace.
NewEvents == SubSeq(trace', Len(trace) + 1, Len(trace'))

\* C5: Push(v) stores v at the address in the stack-pointer slot and then
\* advances the slot by one; Pop() moves the slot back by one and returns
\* the value at the new address.  Hence k pushes followed by k pops return
\* the pushed values in reverse order and restore the stack pointer (k = 1:
\* Push(v) then Pop() returns v).
C5_PushPop ==
    /\ [][RuleStep =>
            /\ lastOp'.op = "Push" =>
                 /\ mem' = [mem EXCEPT ![sp] = lastOp'.arg]
                 /\ sp' = sp + 1
            /\ lastOp'.op = "Pop" =>
                 /\ sp' = sp - 1
                 /\ mem' = mem
                 /\ KindVals(NewEvents, "pop") = <<mem[sp']>>
         ]_vars
    /\ [](\A n \in 1..(Len(trace) \div 2) :
            LET t == SubSeq(trace, Len(trace) - 2 * n + 1, Len(trace))
            IN  (\A i \in 1..n : t[i].k = "push" /\ t[n + i].k = "pop") =>
                    /\ \A i \in 1..n : t[n + i].v = t[n + 1 - i].v
                    /\ sp = t[1].at)

C5_Witness ==
    /\ pc = "stack"
    /\ Len(trace) = 4
    /\ \A i \in 1..2 : trace[i].k = "push" /\ trace[2 + i].k = "pop"
    /\ trace[1].v # trace[2].v
    /\ trace[3].v = trace[2].v
    /\ trace[4].v = trace[1].v
    /\ sp = Len(entry.stack)
    /\ entry.stack # <<>>

\* C6: DecRef lowers the count of its object by exactly one and calls the
\* deallocation entry point exactly when the lowered count is zero, once;
\* XDecRef of null changes no count and calls nothing, and XDecRef of an
\* object does exactly what DecRef does.
C6_Release ==
    [][RuleStep =>
         /\ \/ lastOp'.op = "DecRef"
            \/ lastOp'.op = "XDecRef" /\ lastOp'.arg # Null
            => LET o == lastOp'.arg
               IN  /\ refcnt' = [refcnt EXCEPT ![o] = @ - 1]
                   /\ KindVals(NewEvents, "decref") = <<o>>
                   /\ KindVals(NewEvents, "dealloc")
                        = IF refcnt'[o] = 0 THEN <<o>> ELSE <<>>
         /\ lastOp'.op = "XDecRef" /\ lastOp'.arg = Null =>
               /\ refcnt' = refcnt
               /\ reftotal' = reftotal
               /\ NewEvents = <<[k |-> "xdecref", v |-> Null]>>
         /\ lastOp'.op = "XDecRef" /\ lastOp'.arg # Null =>
               LET d == DecRef(State, lastOp'.arg)
               IN  /\ refcnt' = d.refcnt
                   /\ reftotal' = d.reftotal
                   /\ Tail(NewEvents)
                        = SubSeq(d.trace, Len(trace) + 1, Len(d.trace))
      ]_vars

C6_Witness ==
    /\ pc = "refs"
    /\ lastOp.op = "DecRef"
    /\ refcnt[lastOp.arg] = 0
    /\ trace[Len(trace)] = [k |-> "dealloc", v |-> lastOp.arg]
    /\ Null \in {e.v : e \in {trace[i] : i \in DOMAIN trace}}

\* C7: with one thread, after any sequence of IncRef and DecRef the count
\* of every object is its initial count plus the acquires minus the
\* releases applied to it, and with Py_REF_DEBUG the process-wide counter
\* has moved by all acquires minus all releases.
C7_RefcountBalance ==
    /\ \A o \in Objects :
          refcnt[o] = entry.refcnt[o]
                        + Times(KindVals(trace, "incref"), o)
                        - Times(KindVals(trace, "decref"), o)
    /\ refdebug =>
          reftotal = Len(KindVals(trace, "incref"))
                       - Len(KindVals(trace, "decref"))

C7_Witness ==
    /\ pc = "refs"
    /\ refdebug
    /\ Len(KindVals(trace, "incref")) = 1
    /\ Len(KindVals(trace, "decref")) = 2
    /\ reftotal = -1

\* Everything LOAD_FAST 0; LOAD_FAST 1; BINARY_ADD; RETURN_VALUE does when
\* the locals hold a and b, the stack is empty and the addition returns res.
AddTrace(a, b, res) ==
    <<[k |-> "incref", v |-> a],
      [k |-> "push", v |-> a, at |-> StackBottom],
      [k |-> "incref", v |-> b],
      [k |-> "push", v |-> b, at |-> StackBottom + 1],
      [k |-> "pop", v |-> b, at |-> StackBottom + 1],
      [k |-> "pop", v |-> a, at |-> StackBottom],
      [k |-> "call", f |-> "PyNumber_Add", args |-> <<a, b>>, res |-> res],
      [k |-> "decref", v |-> a],
      [k |-> "decref", v |-> b]>>
    \o IF res = Null
       THEN <<[k |-> "ret", v |-> Null, at |-> StackBottom]>>
       ELSE <<[k |-> "push", v |-> res, at |-> StackBottom],
              [k |-> "pop", v |-> res, at |-> StackBottom],
              [k |-> "ret", v |-> res, at |-> StackBottom]>>

IsPrefix(t, u) == Len(t) <= Len(u) /\ t = SubSeq(u, 1, Len(t))

AddScenario ==
    /\ code = ProgAdd
    /\ entry.stack = <<>>
    /\ \A i \in {0, 1} : entry.locals[i] # Null

\* C8: LOAD_FAST 0; LOAD_FAST 1; BINARY_ADD; RETURN_VALUE with both locals
\* bound and an empty stack pops local 1's value, then local 0's, calls the
\* addition once with (local 0, local 1) and releases both; on a null
\* result the function returns null and the return block drains nothing;
\* otherwise the sum is pushed, popped into the return slot, the return
\* block finds the stack at its bottom and the sum is returned unreleased.
C8_AddScenario ==
    AddScenario =>
        LET a == entry.locals[0]
            b == entry.locals[1]
        IN  /\ \E res \in Val : IsPrefix(trace, AddTrace(a, b, res))
            /\ pc = "done" =>
                  \E res \in Val :
                      /\ trace = AddTrace(a, b, res)
                      /\ returned = res
                      /\ sp = StackBottom
                      /\ DrainPart = <<>>

C8_Witness ==
    /\ AddScenario
    /\ pc = "done"
    /\ returned \in Objects
    /\ entry.locals[0] # entry.locals[1]
    /\ Len(trace) = 12

StoreScenario ==
    /\ Len(code) = 2
    /\ code[1].op = "LOAD_CONST"
    /\ code[2].op = "STORE_FAST"

\* C9: LOAD_CONST i; STORE_FAST j acquires once (the constant), applies
\* release-if-present once (to the previous occupant of local j) and never
\* releases the stored reference; when local j was empty, it afterwards
\* holds the constant with one more reference and the stack is as deep as
\* before.
C9_LoadConstStoreFast ==
    StoreScenario /\ nsteps = 2 =>
        LET c == co_consts[code[1].arg]
            j == code[2].arg
            prior == entry.locals[j]
        IN  /\ pc = "run"
            /\ KindVals(trace, "incref") = <<c>>
            /\ KindVals(trace, "xdecref") = <<prior>>
            /\ KindVals(trace, "decref")
                 = IF prior = Null THEN <<>> ELSE <<prior>>
            /\ prior = Null =>
                  /\ locals = [entry.locals EXCEPT ![j] = c]
                  /\ refcnt = [entry.refcnt EXCEPT ![c] = @ + 1]
                  /\ sp = StackBottom + Len(entry.stack)
                  /\ \A i \in 1..Len(entry.stack) :
                        mem[StackBottom + i - 1] = entry.stack[i]

C9_Witness ==
    /\ StoreScenario
    /\ nsteps = 2
    /\ entry.locals[code[2].arg] = Null
    /\ locals[code[2].arg] = co_consts[code[1].arg]
    /\ Len(entry.stack) = 1

\* C10: STORE_FAST j pops the top of the stack into local j and DELETE_FAST
\* j stores null there; neither acquires or releases the stored value, both
\* release the previous occupant once when it is non-null and not at all
\* when it is null, DELETE_FAST never takes the error return and leaves the
\* stack alone, and every other local keeps its value.
C10_StoreDeleteFast ==
    [][RuleStep /\ lastOp'.op \in {"STORE_FAST", "DELETE_FAST"} =>
         LET j == lastOp'.arg
             prior == locals[j]
             stored == IF lastOp'.op = "STORE_FAST" THEN mem[sp - 1] ELSE Null
         IN  /\ locals' = [locals EXCEPT ![j] = stored]
             /\ KindVals(trace', "incref") = <<>>
             /\ KindVals(trace', "xdecref") = <<prior>>
             /\ KindVals(trace', "decref")
                  = IF prior = Null THEN <<>> ELSE <<prior>>
             /\ refcnt' = IF prior = Null THEN refcnt
                          ELSE [refcnt EXCEPT ![prior] = @ - 1]
             /\ pc' = "run"
             /\ retval' = retval
             /\ KindVals(trace', "push") = <<>>
             /\ lastOp'.op = "STORE_FAST" =>
                  sp' = sp - 1 /\ KindVals(trace', "pop") = <<stored>>
             /\ lastOp'.op = "DELETE_FAST" =>
                  sp' = sp /\ mem' = mem /\ KindVals(trace', "pop") = <<>>
      ]_vars

C10_Witness ==
    /\ lastOp.op = "STORE_FAST"
    /\ pc = "run"
    /\ locals[lastOp.arg] # entry.locals[lastOp.arg]
    /\ KindVals(trace, "decref") = <<entry.locals[lastOp.arg]>>
    /\ sp = Len(entry.stack) - 1

\* ------------------------------------------------ lowering a whole function
\* The driver creates one block per bytecode instruction before it lowers
\* anything, so that every jump target exists; then, for each instruction in
\* program order, it falls through to the instruction's block and calls the
\* opcode's rule with the blocks of the jump target and of the next
\* instruction.  The function body ends in RETURN_VALUE.
MaxInstrs == 2

B == Builder(blocks, cur, refdebug)

RECURSIVE CreateInstrBlocks(_, _)
CreateInstrBlocks(b, n) ==
    IF n = 0 THEN b ELSE CreateInstrBlocks(Create(b, "instr"), n - 1)

\* Block of instruction i (instructions are numbered from 1).
InstrBlock(i) == Len(LlvmFunctionBuilder(refdebug).blocks) + i
NumInstrs == Cardinality({i \in DOMAIN blocks : blocks[i].name = "instr"})

InitIR ==
    /\ code = <<>>
    /\ pc = "fall"
    /\ refdebug \in BOOLEAN
    /\ mem = [i \in Slots |-> Null]
    /\ sp = StackBottom
    /\ locals = [i \in LocalIdx |-> Null]
    /\ refcnt = [o \in Objects |-> 1]
    /\ entry = [stack |-> <<>>, locals |-> locals, refcnt |-> refcnt]
    /\ reftotal = 0
    /\ retval = Uninit
    /\ returned = Uninit
    /\ trace = <<>>
    /\ lastOp = [op |-> "entry", arg |-> 0]
    /\ nsteps = 0
    /\ ip = 1
    /\ \E n \in 1..MaxInstrs :
           blocks = CreateInstrBlocks(LlvmFunctionBuilder(refdebug), n).blocks
    /\ cur = LlvmFunctionBuilder(refdebug).cur
    /\ StringOffset = <<>>
    /\ AggregateString = <<>>
    /\ typeNames = <<>>
    /\ threads = <<>>

StraightOps ==
    {"LOAD_CONST", "LOAD_GLOBAL", "STORE_GLOBAL", "DELETE_GLOBAL", "LOAD_FAST",
     "LOAD_DEREF", "STORE_DEREF", "LOAD_ATTR", "STORE_ATTR", "DELETE_ATTR",
     "CALL_FUNCTION", "CALL_FUNCTION_VAR_KW", "STORE_FAST", "DELETE_FAST",
     "GET_ITER", "POP_BLOCK", "RETURN_VALUE", "RAISE_VARARGS_ZERO",
     "RAISE_VARARGS_ONE", "RAISE_VARARGS_TWO", "RAISE_VARARGS_THREE",
     "STORE_SUBSCR", "GenericBinOp", "GenericPowOp", "DELETE_SUBSCR",
     "POP_TOP", "DUP_TOP", "DUP_TOP_TWO", "DUP_TOP_THREE", "ROT_TWO",
     "ROT_THREE", "ROT_FOUR", "LIST_APPEND", "STORE_MAP", "BUILD_LIST",
     "BUILD_TUPLE", "GenericUnaryOp", "UNARY_NOT", "BUILD_MAP",
     "BUILD_SLICE_TWO", "BUILD_SLICE_THREE", "SLICE_BOTH", "SLICE_LEFT",
     "SLICE_RIGHT", "SLICE_NONE", "STORE_SLICE_BOTH", "STORE_SLICE_LEFT",
     "STORE_SLICE_RIGHT", "STORE_SLICE_NONE", "DELETE_SLICE_BOTH",
     "DELETE_SLICE_LEFT", "DELETE_SLICE_RIGHT", "DELETE_SLICE_NONE",
     "UNPACK_SEQUENCE"}

JumpOps ==
    {"JUMP_ABSOLUTE", "POP_JUMP_IF_FALSE", "POP_JUMP_IF_TRUE",
     "JUMP_IF_FALSE_OR_POP", "JUMP_IF_TRUE_OR_POP", "SETUP_LOOP", "FOR_ITER"}

CmpOps == PyCmp_LT..PyCmp_EXC_MATCH

\* The builder after a step of the driver, and the driver's own position.
Lowered(b, op, arg, next) ==
    /\ blocks' = b.blocks
    /\ cur' = b.cur
    /\ lastOp' = [op |-> op, arg |-> arg]
    /\ pc' = next
    /\ UNCHANGED <<mem, sp, locals, refcnt, reftotal, refdebug, retval,
                   returned, trace, code, entry, StringOffset,
                   AggregateString, typeNames, threads>>

Drv_FallThroughTo ==
    /\ pc = "fall"
    /\ Lowered(FallThroughTo(B, InstrBlock(ip)), "FallThroughTo", ip, "rule")
    /\ UNCHANGED <<ip, nsteps>>

\* Where the driver goes after the rule of instruction ip.
AfterRule == IF ip = NumInstrs THEN "lowered" ELSE "fall"

Drv_Straight ==
    \E op \in StraightOps :
        /\ pc = "rule"
        /\ ip = NumInstrs => op = "RETURN_VALUE"
        /\ Lowered(Lower(B, op, 0, 0), op, 0, AfterRule)
        /\ ip' = ip + 1
        /\ nsteps' = nsteps + 1

Drv_COMPARE_OP ==
    \E cmp_op \in CmpOps :
        /\ pc = "rule"
        /\ ip < NumInstrs
        /\ Lowered(Scoped(B, NoArgs, COMPARE_OP_body(cmp_op)), "COMPARE_OP", cmp_op, AfterRule)
        /\ ip' = ip + 1
        /\ nsteps' = nsteps + 1

Drv_Jump ==
    \E op \in JumpOps, t \in 1..NumInstrs :
        /\ pc = "rule"
        /\ ip < NumInstrs
        /\ Lowered(Lower(B, op, InstrBlock(t), InstrBlock(ip + 1)),
                   op, t, AfterRule)
        /\ ip' = ip + 1
        /\ nsteps' = nsteps + 1

NextIR == Drv_FallThroughTo \/ Drv_Straight \/ Drv_COMPARE_OP \/ Drv_Jump

SpecIR == InitIR /\ [][NextIR]_vars

\* A block ends in a terminator and holds no other one.
WellTerminated(blk) ==
    /\ getTerminator(blk) # <<>>
    /\ \A j \in 1..(Len(blk.ins) - 1) : ~IsTerminator(blk.ins[j])

EndsIn(blk, kinds) ==
    getTerminator(blk) # <<>> /\ getTerminator(blk)[1].k \in kinds

HasBlock(name) == \E i \in DOMAIN blocks : blocks[i].name = name

\* C11: once a function has been lowered (any rules, each preceded by the
\* driver's fallthrough to its block, the last one RETURN_VALUE), exactly one
\* block ends in a return and it is do_return; every other block ends in
\* exactly one branch or conditional branch; no block lacks a terminator.
C11_OneReturnAllTerminated ==
    pc = "lowered" =>
        /\ \A i \in DOMAIN blocks : WellTerminated(blocks[i])
        /\ \A i \in DOMAIN blocks :
               IF blocks[i].name = "do_return"
               THEN EndsIn(blocks[i], {"ret"})
               ELSE EndsIn(blocks[i], {"br", "condbr"})
        /\ Cardinality({i \in DOMAIN blocks : blocks[i].name = "do_return"}) = 1

\* A function whose first instruction raises and whose second returns.
C11_Witness ==
    /\ pc = "lowered"
    /\ nsteps = 2
    /\ HasBlock("dead_code")
    /\ lastOp.op = "RETURN_VALUE"

\* Number of terminators a block holds.
Terminators(blk) == Cardinality({j \in DOMAIN blk.ins : IsTerminator(blk.ins[j])})

\* A step in which the driver called FallThroughTo.
FallStep == pc = "fall" /\ pc' = "rule"

\* C20: FallThroughTo(next) appends a branch to next to the current block
\* exactly when that block has no terminator, never gives a block a second
\* terminator, and leaves the insertion point at next either way; when the
\* current block is already terminated no block's contents change.
C20_FallThroughTo ==
    [][FallStep =>
         LET next_block == InstrBlock(ip)
             branch == [k |-> "br", what |-> "", to |-> <<next_block>>]
         IN  /\ cur' = next_block
             /\ IF getTerminator(blocks[cur]) = <<>>
                THEN blocks' = [blocks EXCEPT ![cur].ins = Append(@, branch)]
                ELSE blocks' = blocks
             /\ Terminators(blocks[cur]) <= 1 => Terminators(blocks'[cur]) <= 1
      ]_vars

\* The driver has fallen through from a block that a jump or a return had
\* already terminated: nothing branches to the block it is now in.
C20_Witness ==
    /\ pc = "rule"
    /\ lastOp.op = "FallThroughTo"
    /\ ip = 2
    /\ cur = InstrBlock(2)
    /\ \A i \in DOMAIN blocks :
           \A j \in DOMAIN blocks[i].ins : cur \notin
               {blocks[i].ins[j].to[n] : n \in DOMAIN blocks[i].ins[j].to}
    /\ blocks[InstrBlock(1)].ins # <<>>

\* The calls of entry point f in t, and what they returned.
Calls(t, f) == SelectSeq(t, LAMBDA e : e.k = "call" /\ e.f = f)
CallRes(t, f) == [i \in 1..Len(Calls(t, f)) |-> Calls(t, f)[i].res]

\* The branches to the driver's blocks in t.
Branches(t) ==
    LET u == SelectSeq(t, LAMBDA e : e.k = "br")
    IN  [i \in 1..Len(u) |-> u[i].to]

\* C12: FOR_ITER pops the iterator and asks it for the next value.  A value:
\* the iterator is pushed back, then the value, nothing is released.  Null
\* with no error pending, or with StopIteration pending: the iterator is
\* released once and control branches to the loop-exit target, the error being
\* cleared only in the StopIteration case.  Null with any other error: the
\* iterator is released once and the error return is taken, nothing cleared.
C12_ForIter ==
    [][RuleStep /\ lastOp'.op = "FOR_ITER" =>
         LET t == trace'
             iter == mem[sp - 1]
             next == CallRes(t, "tp_iternext")
             err == CallRes(t, "PyErr_Occurred")
             stop == CallRes(t, "PyErr_ExceptionMatches")
             cleared == Len(Calls(t, "PyErr_Clear"))
         IN  /\ KindVals(t, "pop") = <<iter>>
             /\ Len(next) = 1
             /\ IF next[1] # Null
                THEN /\ KindVals(t, "push") = <<iter, next[1]>>
                     /\ KindVals(t, "decref") = <<>>
                     /\ sp' = sp + 1
                     /\ mem'[sp - 1] = iter /\ mem'[sp] = next[1]
                     /\ pc' = "run" /\ Branches(t) = <<>> /\ cleared = 0
                ELSE /\ KindVals(t, "push") = <<>>
                     /\ KindVals(t, "decref") = <<iter>>
                     /\ sp' = sp - 1
                     /\ IF err = <<Null>> \/ (stop # <<>> /\ stop[1] # 0)
                        THEN /\ pc' = "run"
                             /\ Branches(t) = <<"target">>
                             /\ cleared = (IF err = <<Null>> THEN 0 ELSE 1)
                        ELSE /\ pc' = "return_block" /\ retval' = Null
                             /\ Branches(t) = <<>>
                             /\ cleared = 0
      ]_vars

\* The iterator ended with StopIteration, which was cleared.
C12_Witness ==
    /\ lastOp.op = "FOR_ITER"
    /\ pc = "run"
    /\ Len(Calls(trace, "PyErr_Clear")) = 1
    /\ Branches(trace) = <<"target">>
    /\ KindVals(trace, "decref") = <<entry.stack[Len(entry.stack)]>>

\* C13: UNPACK_SEQUENCE n pops the iterable, calls the unpack entry point with
\* the address n slots above the stack pointer as it is after the pop, and
\* releases the iterable exactly once whatever the result.  Non-zero result:
\* the stack pointer ends n slots above its value after the pop and the rule
\* neither acquires nor releases an unpacked value.  Zero result: the stack
\* pointer stays at its value after the pop and the error return is taken.
C13_UnpackSequence ==
    [][RuleStep /\ lastOp'.op = "UNPACK_SEQUENCE" =>
         LET t == trace'
             n == lastOp'.arg
             iterable == mem[sp - 1]
             call == Calls(t, "_PyEval_UnpackIterable")
         IN  /\ KindVals(t, "pop") = <<iterable>>
             /\ Len(call) = 1
             /\ call[1].args = <<iterable, n, (sp - 1) + n>>
             /\ KindVals(t, "decref") = <<iterable>>
             /\ KindVals(t, "incref") = <<>>
             /\ KindVals(t, "push") = <<>>
             /\ IF call[1].res # 0
                THEN sp' = (sp - 1) + n /\ pc' = "run"
                ELSE /\ sp' = sp - 1
                     /\ pc' = "return_block" /\ retval' = Null
      ]_vars

\* Two values were unpacked.
C13_Witness ==
    /\ lastOp = [op |-> "UNPACK_SEQUENCE", arg |-> 2]
    /\ pc = "run"
    /\ sp = StackBottom + Len(entry.stack) + 1
    /\ KindVals(trace, "decref") = <<entry.stack[Len(entry.stack)]>>

\* What the call-dispatch entry point returned in t.
CallResult(t) ==
    CallRes(t, "_PyEval_CallFunction") \o CallRes(t, "_PyEval_CallFunctionVarKw")

\* C14: CALL_FUNCTION and CALL_FUNCTION_VAR_KW take the error return exactly
\* when the call-dispatch entry point returns null; otherwise they push the
\* result and lowering continues.
C14_CallsFailOnNull ==
    [][RuleStep /\ lastOp'.op \in {"CALL_FUNCTION", "CALL_FUNCTION_VAR_KW"} =>
         LET t == trace'
             result == CallResult(t)[1]
         IN  IF result = Null
             THEN pc' = "return_block" /\ retval' = Null
             ELSE /\ pc' = "run"
                  /\ KindVals(t, "push") = <<result>>
                  /\ mem'[sp' - 1] = result
      ]_vars

\* Where the stack pointer was at the pushes and at the error returns of t.
PushAt(t) ==
    LET u == SelectSeq(t, LAMBDA e : e.k = "push")
    IN  [i \in 1..Len(u) |-> u[i].at]
RetIn(t) ==
    LET u == SelectSeq(t, LAMBDA e : e.k = "ret")
    IN  [i \in 1..Len(u) |-> u[i].at]
\* C15: CALL_FUNCTION hands the entry point a temporary holding the stack
\* pointer and copies the temporary back before it tests the result: on the
\* failure path the error return is taken with the stack pointer at the value
\* the callee left (callable and arguments gone), on the success path the
\* result is pushed at that position.
C15_CallFunctionStackPointer ==
    [][RuleStep /\ lastOp'.op = "CALL_FUNCTION" =>
         LET t == trace'
             result == CallRes(t, "_PyEval_CallFunction")[1]
             left == sp - (lastOp'.arg + 1)
         IN  IF result = Null
             THEN /\ sp' = left
                  /\ RetIn(t) = <<left>>
                  /\ KindVals(t, "push") = <<>>
             ELSE /\ sp' = left + 1
                  /\ PushAt(t) = <<left>>
                  /\ KindVals(t, "push") = <<result>>
                  /\ mem'[left] = result
                  /\ RetIn(t) = <<>>
      ]_vars

\* A call with one argument returned a result.
C15_Witness ==
    /\ lastOp = [op |-> "CALL_FUNCTION", arg |-> 1]
    /\ pc = "run"
    /\ sp = StackBottom + Len(entry.stack) - 1
    /\ KindVals(trace, "push") = <<mem[sp - 1]>>

\* C16: POP_JUMP_IF_FALSE and POP_JUMP_IF_TRUE pop the tested value and
\* release it exactly once on every path: jump, fallthrough, and the error
\* return taken when the truthiness entry point fails.
C16_PopJumpReleasesOnce ==
    [][RuleStep /\ lastOp'.op \in {"POP_JUMP_IF_FALSE", "POP_JUMP_IF_TRUE"} =>
         /\ KindVals(trace', "pop") = <<mem[sp - 1]>>
         /\ KindVals(trace', "decref") = <<mem[sp - 1]>>
      ]_vars

\* The same statement on the paths that jump or fall through.
C16_ReleasedUnlessFailed ==
    [][RuleStep /\ lastOp'.op \in {"POP_JUMP_IF_FALSE", "POP_JUMP_IF_TRUE"}
          /\ pc' = "run" =>
         /\ KindVals(trace', "pop") = <<mem[sp - 1]>>
         /\ KindVals(trace', "decref") = <<mem[sp - 1]>>
      ]_vars

C17Rules == {"JUMP_IF_FALSE_OR_POP", "JUMP_IF_TRUE_OR_POP"}

\* C17: JUMP_IF_FALSE_OR_POP and JUMP_IF_TRUE_OR_POP leave the tested value on
\* the stack, unreleased and at unchanged depth, on the path that jumps; on
\* the other path they pop it and release it once before the branch to the
\* fallthrough block; when the truthiness test fails the value is still on
\* the stack at the error return, so the return block releases it once.
C17_JumpOrPop ==
    /\ [][RuleStep /\ lastOp'.op \in C17Rules =>
            LET t == trace'
                v == mem[sp - 1]
            IN  CASE pc' = "return_block" ->
                         /\ sp' = sp /\ mem'[sp - 1] = v
                         /\ KindVals(t, "decref") = <<>>
                         /\ Branches(t) = <<>>
                         /\ RetIn(t) = <<sp>>
                  [] pc' = "run" /\ Branches(t) = <<"target">> ->
                         /\ sp' = sp /\ mem'[sp - 1] = v
                         /\ KindVals(t, "decref") = <<>>
                  [] pc' = "run" /\ Branches(t) = <<"fallthrough">> ->
                         /\ sp' = sp - 1
                         /\ KindVals(t, "decref") = <<v>>
                         /\ t[Len(t)].k = "br"
                  [] OTHER -> FALSE
         ]_vars
    /\ [](pc = "done" /\ lastOp.op \in C17Rules =>
            /\ KindVals(RulePart, "decref") = <<>>
            /\ KindVals(DrainPart, "decref")[1] = ExitStack[1]
            /\ Times(KindVals(trace, "decref"), ExitStack[1])
                   = Times(ExitStack, ExitStack[1]))

\* The truthiness test failed and the return block has released the value.
C17_Witness ==
    /\ pc = "done"
    /\ lastOp.op = "JUMP_IF_TRUE_OR_POP"
    /\ returned = Null
    /\ Calls(trace, "PyObject_IsTrue") # <<>>
    /\ KindVals(DrainPart, "decref")[1] = entry.stack[Len(entry.stack)]

JumpIfFalse == {"POP_JUMP_IF_FALSE", "JUMP_IF_FALSE_OR_POP"}
JumpIfTrue == {"POP_JUMP_IF_TRUE", "JUMP_IF_TRUE_OR_POP"}

\* C18: the truthiness helper answers true for the True singleton and false
\* for the False singleton without calling the runtime; for any other value
\* it calls PyObject_IsTrue once: a negative result takes the error return, a
\* positive one is true, zero is false.  So the IF_FALSE jumps branch to
\* their target exactly when the value is falsy and the IF_TRUE jumps exactly
\* when it is truthy.
C18_IsTrue ==
    [][RuleStep /\ lastOp'.op \in JumpIfFalse \cup JumpIfTrue =>
         LET t == trace'
             value == mem[sp - 1]
             call == Calls(t, "PyObject_IsTrue")
             failed == value \notin {PyTrue, PyFalse} /\ call[1].res < 0
             truthy == \/ value = PyTrue
                       \/ value \notin {PyTrue, PyFalse} /\ call[1].res > 0
             jumps == IF lastOp'.op \in JumpIfFalse THEN ~truthy ELSE truthy
         IN  /\ IF value \in {PyTrue, PyFalse}
                THEN call = <<>>
                ELSE Len(call) = 1 /\ call[1].args = <<value>>
             /\ IF failed
                THEN /\ pc' = "return_block" /\ retval' = Null
                     /\ Branches(t) = <<>>
                ELSE /\ pc' = "run"
                     /\ Branches(t)
                            = <<IF jumps THEN "target" ELSE "fallthrough">>
      ]_vars

\* PyObject_IsTrue answered with a positive number other than 1 and the
\* IF_TRUE jump went to its target.
C18_Witness ==
    /\ lastOp.op = "POP_JUMP_IF_TRUE"
    /\ pc = "run"
    /\ CallRes(trace, "PyObject_IsTrue") = <<2>>
    /\ Branches(trace) = <<"target">>

RaiseArity ==
    [RAISE_VARARGS_ZERO |-> 0, RAISE_VARARGS_ONE |-> 1,
     RAISE_VARARGS_TWO |-> 2, RAISE_VARARGS_THREE |-> 3]

\* C19: a RAISE_VARARGS rule of arity n pops exactly n operands, the
\* uppermost being the last of (type, instance, traceback) that is present,
\* passes null for the missing ones, calls the raise entry point once,
\* releases none of the operands itself and always takes the error return, so
\* nothing lowered after it in the same block is ever run.
C19_RaiseVarargs ==
    [][RuleStep /\ lastOp'.op \in DOMAIN RaiseArity =>
         LET t == trace'
             n == RaiseArity[lastOp'.op]
             call == Calls(t, "_PyEval_DoRaise")
         IN  /\ KindVals(t, "pop") = [i \in 1..n |-> mem[sp - i]]
             /\ sp' = sp - n
             /\ Len(call) = 1
             /\ call[1].args
                    = [j \in 1..3 |-> IF j <= n THEN mem[sp - n + j - 1]
                                               ELSE Null]
             /\ KindVals(t, "decref") = <<>>
             /\ KindVals(t, "xdecref") = <<>>
             /\ pc' = "return_block" /\ retval' = Null
             /\ t[Len(t)].k = "ret"
      ]_vars

\* Three different operands were raised.
C19_Witness ==
    /\ lastOp.op = "RAISE_VARARGS_THREE"
    /\ pc = "return_block"
    /\ Len(entry.stack) >= 3
    /\ Calls(trace, "_PyEval_DoRaise")[1].args
           = SubSeq(entry.stack, Len(entry.stack) - 2, Len(entry.stack))
    /\ Cardinality({entry.stack[Len(entry.stack) - i] : i \in 0..2}) = 3

\* ------------------------------------------------- StringToOffsetTable
\* utils/TableGen/StringToOffsetTable.h.  A string is a sequence of
\* characters; NUL is the character 0 and no key holds it.  The StringMap is
\* a function from the keys it holds to their unsigned values; operator[]
\* adds a missing key with the value 0.  Offsets stay far below 2^32 here,
\* so the conversion of size() to unsigned changes nothing.
MaxLen == 2        \* longest string handed to the table
MaxCalls == 3      \* calls of GetOrAddStringOffset on one table

NUL == 0
Chars == {1, 2}

RECURSIVE StringsOfLen(_)
StringsOfLen(n) ==
    IF n = 0 THEN {<<>>}
    ELSE {Append(s, c) : s \in StringsOfLen(n - 1), c \in Chars}

Strings == UNION {StringsOfLen(n) : n \in 0..MaxLen}

\* StringMap::operator[]: the map after the lookup, with Str in it.
Subscript(map, Str) ==
    IF Str \in DOMAIN map THEN map ELSE (Str :> 0) @@ map

\* The table that takes the offset after it has appended the string.
GetOrAddStringOffset_offset_after_append(map, agg, Str) ==
    LET m == Subscript(map, Str)
    IN  IF m[Str] = 0
        THEN [StringOffset |-> [m EXCEPT ![Str] = Len(agg \o Str)],
              AggregateString |-> agg \o Str \o <<NUL>>,
              Entry |-> Len(agg \o Str)]
        ELSE [StringOffset |-> m, AggregateString |-> agg, Entry |-> m[Str]]

\* GetOrAddStringOffset(Str) on the table (map, agg): the table afterwards
\* and the value returned.
GetOrAddStringOffset(map, agg, Str) ==
    LET m == Subscript(map, Str)
    IN  IF m[Str] = 0
        THEN [StringOffset |-> [m EXCEPT ![Str] = Len(agg)],
              AggregateString |-> agg \o Str \o <<NUL>>,
              Entry |-> Len(agg)]
        ELSE [StringOffset |-> m, AggregateString |-> agg, Entry |-> m[Str]]

\* A fresh table; the trace keeps every call with what it returned.
InitStr ==
    /\ code = <<>>
    /\ pc = "table"
    /\ refdebug = FALSE
    /\ mem = [i \in Slots |-> Null]
    /\ sp = StackBottom
    /\ locals = [i \in LocalIdx |-> Null]
    /\ refcnt = [o \in Objects |-> 1]
    /\ entry = [stack |-> <<>>, locals |-> locals, refcnt |-> refcnt]
    /\ reftotal = 0
    /\ retval = Uninit
    /\ returned = Uninit
    /\ trace = <<>>
    /\ lastOp = [op |-> "entry", arg |-> 0]
    /\ nsteps = 0
    /\ ip = 1
    /\ blocks = <<>>
    /\ cur = 0
    /\ StringOffset = <<>>
    /\ AggregateString = <<>>
    /\ typeNames = <<>>
    /\ threads = <<>>

Do_GetOrAddStringOffset ==
    \E Str \in Strings :
        LET r == GetOrAddStringOffset(StringOffset, AggregateString, Str)
        IN  /\ pc = "table" /\ nsteps < MaxCalls
            /\ StringOffset' = r.StringOffset
            /\ AggregateString' = r.AggregateString
            /\ trace' = Append(trace, [Str |-> Str, Entry |-> r.Entry])
            /\ lastOp' = [op |-> "GetOrAddStringOffset", arg |-> Str]
            /\ nsteps' = nsteps + 1
            /\ UNCHANGED <<mem, sp, locals, refcnt, reftotal, refdebug, retval,
                           pc, returned, code, ip, entry, blocks, cur,
                           typeNames, threads>>

NextStr == Do_GetOrAddStringOffset

SpecStr == InitStr /\ [][NextStr]_vars

\* The calls made so far with the string Str, as indices of the trace.
CallsWith(Str) == {i \in DOMAIN trace : trace[i].Str = Str}

FirstCallWith(Str) == CHOOSE i \in CallsWith(Str) : \A j \in CallsWith(Str) : i <= j

\* C21: a call with a string that an earlier call already added returns the
\* offset the first call with that string returned and leaves the aggregate
\* string as it was, so that every distinct string is stored once.
C21_AddedOnce ==
    [][\A Str \in Strings :
           (/\ lastOp'.op = "GetOrAddStringOffset" /\ lastOp'.arg = Str
            /\ nsteps' = nsteps + 1
            /\ CallsWith(Str) # {})
           => /\ trace'[Len(trace')].Entry = trace[FirstCallWith(Str)].Entry
              /\ AggregateString' = AggregateString]_vars

\* C22: the offset returned for s is where s followed by NUL begins in the
\* aggregate string, and different non-empty strings get different offsets.
C22_OffsetsLocateStrings ==
    /\ \A i \in DOMAIN trace :
           LET s == trace[i].Str
               o == trace[i].Entry
           IN  /\ o + Len(s) + 1 <= Len(AggregateString)
               /\ SubSeq(AggregateString, o + 1, o + Len(s)) = s
               /\ AggregateString[o + Len(s) + 1] = NUL
    /\ \A i, j \in DOMAIN trace :
           (trace[i].Str # trace[j].Str /\ trace[i].Str # <<>>
            /\ trace[j].Str # <<>>)
           => trace[i].Entry # trace[j].Entry

\* Two strings of which one is the tail of the other have been added, and
\* one of them has been asked for again.
C22_Witness ==
    /\ pc = "table"
    /\ Len(trace) = 3
    /\ trace[1].Str = <<1, 2>>
    /\ trace[2].Str = <<2>>
    /\ trace[3].Str = <<2>>
    /\ trace[3].Entry = trace[2].Entry

\* ------------------------------------------------------ the layout registry
\* TypeBuilder<T>::cache(module) for the runtime structures and
\* get_function_type(module).  typeNames[module] is the module's type symbol
\* table (name -> type); a type is the structure kind it lays out and the
\* serial number of its construction, so that two constructions of one kind
\* are told apart.
NumModules == 2    \* llvm::Module objects alive
MaxResolves == 3   \* top-level resolutions made

Modules == 1..NumModules

\* The named structures, the name each is registered under, and the named
\* structures its field list resolves, in the order of the field list.
TypeName ==
    [PyObject |-> "__pyobject", PyTupleObject |-> "__pytupleobject",
     PyListObject |-> "__pylistobject", PyTypeObject |-> "__pytypeobject",
     PyCodeObject |-> "__pycodeobject", PyFrameObject |-> "__pyframeobject",
     function_type |-> "__function_type"]

Fields ==
    [PyObject |-> <<>>, PyTupleObject |-> <<"PyObject">>,
     PyListObject |-> <<"PyObject">>, PyTypeObject |-> <<"PyObject">>,
     PyCodeObject |-> <<"PyObject">>,
     PyFrameObject |-> <<"PyObject", "PyCodeObject">>,
     function_type |-> <<"PyObject", "PyFrameObject">>]

Kinds == DOMAIN TypeName

\* A symbol table that never finds a name.
getTypeByName_never_finds(table, name) == <<>>

\* Module::getTypeByName: the type registered under name, if any.
getTypeByName(table, name) ==
    IF name \in DOMAIN table THEN <<table[name]>> ELSE <<>>

\* Module::addTypeName: a name already taken is left alone.
addTypeName(table, name, ty) ==
    IF name \in DOMAIN table THEN table ELSE (name :> ty) @@ table

\* Types constructed so far, over all modules.
NumTypes(tn) ==
    Cardinality({<<m, k>> \in Modules \X Kinds : TypeName[k] \in DOMAIN tn[m]})

RECURSIVE cache(_, _, _)
RECURSIVE cacheFields(_, _, _)

\* The field list resolved from left to right.
cacheFields(st0, module, fields0) ==
    CHOOSE r \in
        {IF fields = <<>> THEN st
         ELSE cacheFields(cache(st, module, Head(fields)), module, Tail(fields)) :
         st \in {st0}, fields \in {fields0}} : TRUE

\* cache(module) of a structure kind, on the registry st.tn; st.ev collects
\* the constructions and registrations made, st.result is what is returned.
cache(st0, module, kind) ==
    CHOOSE r \in
        {LET found == getTypeByName(st.tn[module], TypeName[kind])
         IN  IF found # <<>>
             THEN [st EXCEPT !.result = found[1]]
             ELSE LET s1 == cacheFields(st, module, Fields[kind])
                      ty == [kind |-> kind, serial |-> NumTypes(s1.tn) + 1]
                  IN  [tn |-> [s1.tn EXCEPT ![module] =
                                   addTypeName(@, TypeName[kind], ty)],
                       ev |-> s1.ev \o <<[e |-> "StructType::get", ty |-> ty],
                                         [e |-> "addTypeName", module |-> module,
                                          name |-> TypeName[kind], ty |-> ty]>>,
                       result |-> ty] :
         st \in {st0}} : TRUE

InitRegistry ==
    /\ code = <<>>
    /\ pc = "registry"
    /\ refdebug = FALSE
    /\ mem = [i \in Slots |-> Null]
    /\ sp = StackBottom
    /\ locals = [i \in LocalIdx |-> Null]
    /\ refcnt = [o \in Objects |-> 1]
    /\ entry = [stack |-> <<>>, locals |-> locals, refcnt |-> refcnt]
    /\ reftotal = 0
    /\ retval = Uninit
    /\ returned = Uninit
    /\ trace = <<>>
    /\ lastOp = [op |-> "entry", arg |-> 0]
    /\ nsteps = 0
    /\ ip = 1
    /\ blocks = <<>>
    /\ cur = 0
    /\ StringOffset = <<>>
    /\ AggregateString = <<>>
    /\ typeNames = [m \in Modules |-> <<>>]
    /\ threads = <<>>

\* One resolution asked for by the lowering code; the trace holds what this
\* resolution constructed and registered.
Do_cache ==
    \E module \in Modules, kind \in Kinds :
        LET r == cache([tn |-> typeNames, ev |-> <<>>, result |-> Uninit],
                       module, kind)
        IN  /\ pc = "registry" /\ nsteps < MaxResolves
            /\ typeNames' = r.tn
            /\ trace' = r.ev
            /\ returned' = r.result
            /\ lastOp' = [op |-> "cache", arg |-> <<module, kind>>]
            /\ nsteps' = nsteps + 1
            /\ UNCHANGED <<mem, sp, locals, refcnt, reftotal, refdebug, retval,
                           pc, code, ip, entry, blocks, cur, StringOffset,
                           AggregateString, threads>>

NextRegistry == Do_cache

SpecRegistry == InitRegistry /\ [][NextRegistry]_vars

\* The resolution just made was cache(module) of kind.
Resolved(module, kind) ==
    /\ lastOp'.op = "cache" /\ lastOp'.arg = <<module, kind>>
    /\ nsteps' = nsteps + 1

Registrations(t, module, name) ==
    {i \in DOMAIN t : t[i].e = "addTypeName" /\ t[i].module = module
                      /\ t[i].name = name}

\* C23: a resolution of a structure whose name the module does not hold yet
\* constructs the descriptor and registers it under that name once; a
\* resolution of a name the module holds returns the registered descriptor
\* and constructs and registers nothing; whatever is resolved, in whatever
\* order, no registered name changes its descriptor and no other module's
\* table changes.
C23_Memoized ==
    [][\A module \in Modules, kind \in Kinds :
           Resolved(module, kind) =>
               LET name == TypeName[kind]
                   old == typeNames[module]
                   new == typeNames'[module]
               IN  /\ name \in DOMAIN new /\ returned' = new[name]
                   /\ \A n \in DOMAIN old : n \in DOMAIN new /\ new[n] = old[n]
                   /\ \A m \in Modules \ {module} : typeNames'[m] = typeNames[m]
                   /\ IF name \in DOMAIN old
                      THEN /\ returned' = old[name]
                           /\ trace' = <<>>
                           /\ typeNames' = typeNames
                      ELSE /\ Cardinality(Registrations(trace', module, name)) = 1
                           /\ \E i \in DOMAIN trace' :
                                  /\ trace'[i].e = "StructType::get"
                                  /\ trace'[i].ty = returned'
                           /\ \A m \in Modules :
                                  \A n \in DOMAIN typeNames[m] :
                                      typeNames[m][n] # returned']_vars

\* The frame layout was resolved in a module, then the code layout (which
\* the first resolution had registered), then the frame layout again.
C23_Witness ==
    /\ pc = "registry"
    /\ nsteps = 3
    /\ lastOp.op = "cache" /\ lastOp.arg[2] = "PyFrameObject"
    /\ trace = <<>>
    /\ "__pyframeobject" \in DOMAIN typeNames[lastOp.arg[1]]
    /\ returned = typeNames[lastOp.arg[1]]["__pyframeobject"]
    /\ returned.serial = 3
    /\ \E m \in Modules : typeNames[m] = <<>>

\* A COMPARE_OP with one of the operators ops has just run.
CmpStep(ops) ==
    RuleStep /\ lastOp'.op = "COMPARE_OP" /\ lastOp'.arg \in ops

\* The events t release each of the operands q as often as it occurs in q.
Releases(t, q) ==
    \A v \in Val : Times(KindVals(t, "decref"), v) = Times(q, v)

\* The rule ended in the error return with nothing pushed or acquired.
ErrorReturn(t) ==
    /\ pc' = "return_block" /\ retval' = Null
    /\ KindVals(t, "push") = <<>> /\ KindVals(t, "incref") = <<>>
    /\ sp' = sp - 2

\* The rule went on after it pushed the singleton for flag, acquired once.
Boxes(t, flag) ==
    LET value == IF flag THEN PyTrue ELSE PyFalse
    IN  /\ pc' = "run"
        /\ KindVals(t, "push") = <<value>> /\ KindVals(t, "incref") = <<value>>
        /\ sp' = sp - 1 /\ mem'[sp - 2] = value

\* C24: COMPARE_OP with the exception-match operator takes the error return
\* exactly when the entry point's result is negative; zero pushes False and
\* a positive result pushes True, acquired once; both operands are released
\* once on every path.
C24_ExceptionMatch ==
    [][CmpStep({PyCmp_EXC_MATCH}) =>
         LET t == trace'
             res == CallRes(t, "_PyEval_CheckedExceptionMatches")
         IN  /\ Len(res) = 1
             /\ Releases(t, <<mem[sp - 1], mem[sp - 2]>>)
             /\ IF res[1] < 0 THEN ErrorReturn(t) ELSE Boxes(t, res[1] > 0)
      ]_vars

\* C25: COMPARE_OP with 'in' and 'not in' calls the containment entry point
\* with the value popped first as the container and the value popped second
\* as the item and releases both once; a negative result takes the error
\* return with nothing pushed; otherwise 'in' pushes True exactly on a
\* positive result and 'not in' exactly on zero, the singleton acquired once.
C25_Membership ==
    [][CmpStep({PyCmp_IN, PyCmp_NOT_IN}) =>
         LET t == trace'
             call == Calls(t, "PySequence_Contains")
             popped == KindVals(t, "pop")
         IN  /\ popped = <<mem[sp - 1], mem[sp - 2]>>
             /\ Len(call) = 1
             /\ call[1].args = <<popped[1], popped[2]>>
             /\ Releases(t, popped)
             /\ IF call[1].res < 0 THEN ErrorReturn(t)
                ELSE Boxes(t, IF lastOp'.arg = PyCmp_IN
                              THEN call[1].res > 0
                              ELSE call[1].res = 0)
      ]_vars

\* 'not in' found the item missing and pushed True.
C25_Witness ==
    /\ lastOp = [op |-> "COMPARE_OP", arg |-> PyCmp_NOT_IN]
    /\ pc = "run"
    /\ CallRes(trace, "PySequence_Contains") = <<0>>
    /\ mem[sp - 1] = PyTrue
    /\ KindVals(trace, "incref") = <<PyTrue>>
    /\ Len(KindVals(trace, "decref")) = 2

\* The positions in t of the events of kind.
At(t, kind) == {i \in DOMAIN t : t[i].k = kind}

\* C26: COMPARE_OP with 'is' and 'is not' calls nothing and never takes the
\* error return; 'is' pushes True exactly when the two popped operands are
\* the same object, 'is not' the opposite; the operands are compared before
\* either is released, each is released once, and the pushed singleton is
\* acquired once.  The six ordering comparisons push the result of the rich
\* comparison without acquiring it.
C26_IdentityAndOrdering ==
    /\ [][CmpStep({PyCmp_IS, PyCmp_IS_NOT}) =>
            LET t == trace'
                rhs == mem[sp - 1]
                lhs == mem[sp - 2]
            IN  /\ At(t, "call") = {} /\ At(t, "ret") = {}
                /\ KindVals(t, "pop") = <<rhs, lhs>>
                /\ Cardinality(At(t, "icmp")) = 1
                /\ \A i \in At(t, "icmp") :
                       /\ t[i].args = <<lhs, rhs>>
                       /\ \A j \in At(t, "decref") : i < j
                /\ Releases(t, <<lhs, rhs>>)
                /\ Boxes(t, IF lastOp'.arg = PyCmp_IS THEN lhs = rhs
                                                      ELSE lhs # rhs)
         ]_vars
    /\ [][CmpStep(PyCmp_LT..PyCmp_GE) /\ pc' = "run" =>
            LET t == trace'
                call == Calls(t, "PyObject_RichCompare")
            IN  /\ Len(call) = 1
                /\ call[1].args = <<mem[sp - 2], mem[sp - 1], lastOp'.arg>>
                /\ KindVals(t, "push") = <<call[1].res>>
                /\ KindVals(t, "incref") = <<>>
                /\ mem'[sp - 2] = call[1].res
         ]_vars

\* 'is' compared an object with itself.
C26_Witness ==
    /\ lastOp = [op |-> "COMPARE_OP", arg |-> PyCmp_IS]
    /\ pc = "run"
    /\ entry.stack[Len(entry.stack)] = entry.stack[Len(entry.stack) - 1]
    /\ mem[sp - 1] = PyTrue
    /\ Len(KindVals(trace, "decref")) = 2

\* The set-item events of t.
SetItems(t) == SelectSeq(t, LAMBDA e : e.k = "setitem")

\* C27: BUILD_LIST n and BUILD_TUPLE n.  Null from the create entry point:
\* the error return is taken with the n operands still on the stack.
\* Otherwise n values are popped, the k-th popped is stored at index n - k of
\* the new container (so that the container is in push order), no operand is
\* released or acquired, the fill loop runs n times, and the container is
\* pushed.
C27_BuildSequence ==
    [][RuleStep /\ lastOp'.op \in {"BUILD_LIST", "BUILD_TUPLE"} =>
         LET t == trace'
             n == lastOp'.arg
             create == IF lastOp'.op = "BUILD_LIST" THEN "PyList_New"
                                                    ELSE "PyTuple_New"
             call == Calls(t, create)
             set == SetItems(t)
         IN  /\ Len(call) = 1 /\ call[1].args = <<n>>
             /\ At(t, "call") = {1}
             /\ KindVals(t, "decref") = <<>> /\ KindVals(t, "incref") = <<>>
             /\ IF call[1].res = Null
                THEN /\ pc' = "return_block" /\ retval' = Null
                     /\ sp' = sp /\ mem' = mem
                     /\ RetIn(t) = <<sp>>
                     /\ KindVals(t, "pop") = <<>> /\ set = <<>>
                     /\ KindVals(t, "push") = <<>>
                ELSE /\ pc' = "run"
                     /\ KindVals(t, "pop") = [k \in 1..n |-> mem[sp - k]]
                     /\ Len(set) = n
                     /\ \A k \in 1..n :
                            /\ set[k].seq = call[1].res
                            /\ set[k].idx = n - k
                            /\ set[k].v = mem[sp - k]
                            /\ set[k].f = (IF lastOp'.op = "BUILD_LIST"
                                           THEN "list" ELSE "tuple")
                     /\ \A j \in 0..(n - 1) :
                            \E k \in 1..n : set[k].idx = j
                                            /\ set[k].v = mem[(sp - n) + j]
                     /\ KindVals(t, "push") = <<call[1].res>>
                     /\ t[Len(t)].k = "push"
                     /\ sp' = (sp - n) + 1
                     /\ mem'[sp - n] = call[1].res
      ]_vars

\* A tuple of two different objects was built.
C27_Witness ==
    /\ lastOp = [op |-> "BUILD_TUPLE", arg |-> 2]
    /\ pc = "run"
    /\ Len(SetItems(trace)) = 2
    /\ SetItems(trace)[1].v # SetItems(trace)[2].v
    /\ SetItems(trace)[1].idx = 1

\* How many of the top entries each stack-shuffle rule works on.
DupArity == [DUP_TOP |-> 1, DUP_TOP_TWO |-> 2, DUP_TOP_THREE |-> 3]
RotArity == [ROT_TWO |-> 2, ROT_THREE |-> 3, ROT_FOUR |-> 4]

\* The rule changed nothing below the n uppermost entries it started with,
\* called nothing, released nothing and did not leave for the return block.
OnlyShuffles(t, n) ==
    /\ pc' = "run" /\ retval' = retval
    /\ At(t, "call") = {} /\ At(t, "ret") = {} /\ At(t, "decref") = {}
    /\ \A j \in Slots : j < sp - n => mem'[j] = mem[j]

\* C28: the stack-shuffle rules only rearrange the stack.  DUP_TOP,
\* DUP_TOP_TWO and DUP_TOP_THREE leave the top 1, 2 or 3 entries in place,
\* put a copy of them above in the same order and acquire each copied value
\* once.  ROT_TWO, ROT_THREE and ROT_FOUR move the top entry to the second,
\* third or fourth position and every entry in between up by one, acquiring
\* and releasing nothing.  Entries below are unchanged and the error return
\* is never taken.
C28_StackShuffles ==
    /\ [][RuleStep /\ lastOp'.op \in DOMAIN DupArity =>
            LET t == trace'
                n == DupArity[lastOp'.op]
            IN  /\ OnlyShuffles(t, n)
                /\ sp' = sp + n
                /\ \A i \in 1..n : /\ mem'[sp - i] = mem[sp - i]
                                   /\ mem'[sp' - i] = mem[sp - i]
                /\ Len(KindVals(t, "incref")) = n
                /\ \A v \in Val :
                       Times(KindVals(t, "incref"), v)
                           = Times([i \in 1..n |-> mem[sp - i]], v)
                /\ \A v \in Objects :
                       refcnt'[v] = refcnt[v]
                                    + Times([i \in 1..n |-> mem[sp - i]], v)
         ]_vars
    /\ [][RuleStep /\ lastOp'.op \in DOMAIN RotArity =>
            LET t == trace'
                n == RotArity[lastOp'.op]
            IN  /\ OnlyShuffles(t, n)
                /\ sp' = sp
                /\ mem'[sp - n] = mem[sp - 1]
                /\ \A i \in 1..(n - 1) : mem'[sp - i] = mem[sp - (i + 1)]
                /\ At(t, "incref") = {}
                /\ refcnt' = refcnt
         ]_vars

\* ROT_FOUR has rotated four different objects above a fifth entry.
C28_Witness ==
    /\ lastOp.op = "ROT_FOUR"
    /\ pc = "run"
    /\ sp >= StackBottom + 5
    /\ Cardinality({mem[sp - i] : i \in 1..4}) = 4
    /\ mem[sp - 4] = entry.stack[Len(entry.stack)]
    /\ mem[sp - 1] = entry.stack[Len(entry.stack) - 1]

\* C29: LOAD_FAST i on a null local slot calls the unbound-local raise entry
\* point with the frame and i and takes the error return, pushing and
\* acquiring nothing; on a bound slot it acquires the value once and pushes
\* it; local slot i is left as it was in both cases.
C29_LoadFast ==
    [][RuleStep /\ lastOp'.op = "LOAD_FAST" =>
         LET t == trace'
             i == lastOp'.arg
             local == locals[i]
         IN  /\ locals' = locals
             /\ KindVals(t, "decref") = <<>> /\ KindVals(t, "pop") = <<>>
             /\ IF local = Null
                THEN /\ Len(t) = 2
                     /\ t[1] = [k |-> "call", f |-> "_PyEval_RaiseForUnboundLocal",
                                args |-> <<"frame_", i>>, res |-> 0]
                     /\ pc' = "return_block" /\ retval' = Null
                     /\ RetIn(t) = <<sp>>
                     /\ sp' = sp /\ mem' = mem /\ refcnt' = refcnt
                ELSE /\ At(t, "call") = {} /\ pc' = "run"
                     /\ KindVals(t, "incref") = <<local>>
                     /\ KindVals(t, "push") = <<local>>
                     /\ refcnt'[local] = refcnt[local] + 1
                     /\ sp' = sp + 1 /\ mem'[sp] = local
      ]_vars

\* A bound local was loaded while another slot of the frame is unbound.
C29_Witness ==
    /\ lastOp.op = "LOAD_FAST"
    /\ pc = "run"
    /\ locals[lastOp.arg] # Null
    /\ mem[sp - 1] = locals[lastOp.arg]
    /\ \E j \in LocalIdx : locals[j] = Null
    /\ KindVals(trace, "incref") = <<locals[lastOp.arg]>>

\* C30: LOAD_GLOBAL asks the globals dictionary first and the builtins
\* dictionary only when the globals answered null; the value found is
\* acquired once, then pushed; the name-error raise entry point is called and
\* the error return taken exactly when both answered null; one value is
\* pushed on each success path and none on the error path.
C30_LoadGlobal ==
    [][RuleStep /\ lastOp'.op = "LOAD_GLOBAL" =>
         LET t == trace'
             name == LookupName(lastOp'.arg)
             get == Calls(t, "PyDict_GetItem")
             raise == Calls(t, "_PyEval_RaiseForGlobalNameError")
             found == IF get[1].res # Null THEN get[1].res
                      ELSE get[Len(get)].res
         IN  /\ Len(get) \in {1, 2}
             /\ t[1] = get[1] /\ get[1].args = <<GlobalsRef, name>>
             /\ Len(get) = 2 <=> get[1].res = Null
             /\ Len(get) = 2 => /\ t[2] = get[2]
                                /\ get[2].args = <<BuiltinsRef, name>>
             /\ KindVals(t, "decref") = <<>> /\ KindVals(t, "pop") = <<>>
             /\ IF found = Null
                THEN /\ Len(raise) = 1
                     /\ raise[1].args = <<"frame_", name>>
                     /\ pc' = "return_block" /\ retval' = Null
                     /\ KindVals(t, "push") = <<>>
                     /\ KindVals(t, "incref") = <<>>
                     /\ sp' = sp
                ELSE /\ raise = <<>> /\ pc' = "run"
                     /\ KindVals(t, "incref") = <<found>>
                     /\ KindVals(t, "push") = <<found>>
                     /\ \A i \in At(t, "incref"), j \in At(t, "push") : i < j
                     /\ refcnt'[found] = refcnt[found] + 1
                     /\ sp' = sp + 1 /\ mem'[sp] = found
      ]_vars

\* The name was missing from the globals and found in the builtins.
C30_Witness ==
    /\ lastOp.op = "LOAD_GLOBAL"
    /\ pc = "run"
    /\ CallRes(trace, "PyDict_GetItem") = <<Null, mem[sp - 1]>>
    /\ KindVals(trace, "incref") = <<mem[sp - 1]>>

\* The entry point of every slice rule and the positions of its arguments
\* that the variant omits: (start, stop, step) for PySlice_New, (seq, start,
\* stop) for _PyEval_ApplySlice, (seq, start, stop, source) for
\* _PyEval_AssignSlice.
SliceCall ==
    [BUILD_SLICE_TWO |-> "PySlice_New", BUILD_SLICE_THREE |-> "PySlice_New",
     SLICE_NONE |-> "_PyEval_ApplySlice", SLICE_LEFT |-> "_PyEval_ApplySlice",
     SLICE_RIGHT |-> "_PyEval_ApplySlice", SLICE_BOTH |-> "_PyEval_ApplySlice",
     STORE_SLICE_NONE |-> "_PyEval_AssignSlice",
     STORE_SLICE_LEFT |-> "_PyEval_AssignSlice",
     STORE_SLICE_RIGHT |-> "_PyEval_AssignSlice",
     STORE_SLICE_BOTH |-> "_PyEval_AssignSlice",
     DELETE_SLICE_NONE |-> "_PyEval_AssignSlice",
     DELETE_SLICE_LEFT |-> "_PyEval_AssignSlice",
     DELETE_SLICE_RIGHT |-> "_PyEval_AssignSlice",
     DELETE_SLICE_BOTH |-> "_PyEval_AssignSlice"]

SliceOmits ==
    [BUILD_SLICE_TWO |-> {3}, BUILD_SLICE_THREE |-> {},
     SLICE_NONE |-> {2, 3}, SLICE_LEFT |-> {3}, SLICE_RIGHT |-> {2},
     SLICE_BOTH |-> {},
     STORE_SLICE_NONE |-> {2, 3}, STORE_SLICE_LEFT |-> {3},
     STORE_SLICE_RIGHT |-> {2}, STORE_SLICE_BOTH |-> {},
     DELETE_SLICE_NONE |-> {2, 3, 4}, DELETE_SLICE_LEFT |-> {3, 4},
     DELETE_SLICE_RIGHT |-> {2, 4}, DELETE_SLICE_BOTH |-> {4}]

\* C31: a slice rule passes null for exactly the arguments its variant omits,
\* pops exactly the other operands, and after the call releases each popped
\* operand once and no null, whether the call succeeds or fails.
C31_SliceOperands ==
    [][RuleStep /\ lastOp'.op \in DOMAIN SliceCall =>
         LET t == trace'
             op == lastOp'.op
             call == Calls(t, SliceCall[op])
             args == call[1].args
             n == Len(args) - Cardinality(SliceOmits[op])
             popped == [k \in 1..n |-> mem[sp - k]]
         IN  /\ Len(call) = 1 /\ Cardinality(At(t, "call")) = 1
             /\ \A i \in DOMAIN args : args[i] = Null <=> i \in SliceOmits[op]
             /\ KindVals(t, "pop") = popped
             /\ \A v \in Objects : Times(NonNull(args), v) = Times(popped, v)
             /\ Releases(t, popped)
             /\ \A i \in At(t, "decref") :
                    /\ t[i].v # Null
                    /\ \A j \in At(t, "call") : j < i
             /\ KindVals(t, "incref") = <<>>
             /\ pc' \in {"run", "return_block"}
             /\ pc' = "return_block" <=>
                    IF SliceCall[op] = "_PyEval_AssignSlice"
                    THEN call[1].res # 0 ELSE call[1].res = Null
      ]_vars

\* A slice with only a start bound failed after its two operands were
\* released.
C31_Witness ==
    /\ lastOp.op = "SLICE_LEFT"
    /\ pc = "return_block"
    /\ Len(KindVals(trace, "decref")) = 2
    /\ Calls(trace, "_PyEval_ApplySlice")[1].args[3] = Null
    /\ Calls(trace, "_PyEval_ApplySlice")[1].args[2] # Null

\* C32: a binary or in-place rule makes one runtime call, to its own entry
\* point, with the entry popped second as left operand and the entry popped
\* first as right operand; the two power rules add the None singleton as a
\* third argument and never count a reference of it.
C32_BinaryOperands ==
    [][RuleStep /\ lastOp'.op \in DOMAIN BINOP_METH \cup DOMAIN POW_METH =>
         LET t == trace'
             op == lastOp'.op
             pow == op \in DOMAIN POW_METH
             f == IF pow THEN POW_METH[op] ELSE BINOP_METH[op]
             rhs == mem[sp - 1]
             lhs == mem[sp - 2]
         IN  /\ Cardinality(At(t, "call")) = 1
             /\ Len(Calls(t, f)) = 1
             /\ Calls(t, f)[1].args =
                    IF pow THEN <<lhs, rhs, PyNone>> ELSE <<lhs, rhs>>
             /\ KindVals(t, "pop") = <<rhs, lhs>>
             /\ \A i \in DOMAIN t :
                    t[i].k \in {"incref", "decref", "xdecref"} =>
                        t[i].v # PyNone
      ]_vars

\* A power rule ran on two different operands.
C32_Witness ==
    /\ lastOp.op = "INPLACE_POWER"
    /\ Len(Calls(trace, "PyNumber_InPlacePower")) = 1
    /\ Calls(trace, "PyNumber_InPlacePower")[1].args[1] #
           Calls(trace, "PyNumber_InPlacePower")[1].args[2]
    /\ Calls(trace, "PyNumber_InPlacePower")[1].args[3] = PyNone

\* The entry points none of whose arguments is an object, and the objects a
\* call event hands over (the comparison code, the size and the address an
\* unpacked sequence goes to are plain integers).
NoObjectArgs ==
    {"_PyDict_NewPresized", "PyList_New", "PyTuple_New",
     "_PyEval_CallFunction", "_PyEval_CallFunctionVarKw",
     "_PyEval_RaiseForUnboundLocal", "_PyEval_RaiseForGlobalNameError"}

ObjectArgs(e) ==
    LET at == IF e.f = "PyObject_RichCompare" THEN {1, 2}
              ELSE IF e.f = "_PyEval_UnpackIterable" THEN {1}
              ELSE IF e.f \in NoObjectArgs THEN {}
              ELSE DOMAIN e.args
    IN  {e.args[i] : i \in at}

\* The calls of t that are handed the object v.
Uses(t, v) == {j \in At(t, "call") : v \in ObjectArgs(t[j])}

\* The releases in t of popped operands that some call of t is handed.
OperandReleases(t) ==
    {i \in At(t, "decref") :
        /\ \E p \in At(t, "pop") : p < i /\ t[p].v = t[i].v
        /\ Uses(t, t[i].v) # {}}

\* No operand is released before a call that is handed it.
ReleasedAfterUse(t) ==
    \A i \in OperandReleases(t) : \A j \in Uses(t, t[i].v) : j < i

\* What a rule does between a call and the branch on its result is release
\* operands; a further call, a pop, a push, a jump or the error return
\* belongs to one side of the branch.
ReleaseKinds == {"decref", "xdecref", "dealloc", "negative_refcount"}

ReleasedBeforeBranch(t) ==
    \A i \in OperandReleases(t) : \A j \in Uses(t, t[i].v) :
        \A n \in (j + 1)..(i - 1) : t[n].k \in ReleaseKinds

LateReleaseRules == {"FOR_ITER", "JUMP_IF_FALSE_OR_POP", "JUMP_IF_TRUE_OR_POP"}

Below == (StackBottom - MaxUnder - 1)..(StackBottom - 1)

InitDrain ==
    /\ code = <<>>
    /\ refdebug = FALSE
    /\ pc = "run"
    /\ \E s \in InitStacks, under \in [Below -> Results] :
          /\ mem = [i \in Below \cup Slots |->
                       IF i < StackBottom THEN under[i]
                       ELSE IF i < Len(s) THEN s[i + 1] ELSE Null]
          /\ sp = StackBottom + Len(s)
          /\ locals = [i \in LocalIdx |-> Null]
          /\ refcnt = RefInit(s, locals)
          /\ entry = [stack |-> s, locals |-> locals, refcnt |-> refcnt]
    /\ reftotal = 0
    /\ retval = Uninit
    /\ returned = Uninit
    /\ trace = <<>>
    /\ lastOp = [op |-> "entry", arg |-> 0]
    /\ nsteps = 0
    /\ ip = 1
    /\ blocks = LlvmFunctionBuilder(refdebug).blocks
    /\ cur = LlvmFunctionBuilder(refdebug).cur
    /\ StringOffset = <<>>
    /\ AggregateString = <<>>
    /\ typeNames = <<>>
    /\ threads = <<>>

\* Pop() in a rule: no test of the depth.
Do_UncheckedPop ==
    /\ pc = "run" /\ sp > StackBottom - MaxUnder
    /\ StackOp(Pop(State), "Pop", 0)

\* Return(retval) in a rule.
Do_Return ==
    \E v \in Results :
        /\ pc = "run"
        /\ StackOp(Return(State, v), "Return", v)

NextDrain == Do_UncheckedPop \/ Do_Return \/ PopStack \/ DoReturn

SpecDrain ==
    /\ InitDrain /\ [][NextDrain]_vars
    /\ WF_vars(PopStack) /\ WF_vars(DoReturn)

\* The stack pointer when the return block was entered, relative to the
\* stack bottom.
DrainDepth == trace[Min(RetAt)].at - StackBottom

\* C34: the drain loop terminates from every state; entered with the stack
\* pointer d >= 0 slots above the stack bottom it pops exactly d times and
\* returns, entered at or below the stack bottom it pops nothing and returns
\* at once.
C34_DrainTerminates ==
    /\ [](pc = "return_block" =>
            /\ Len(KindVals(DrainPart, "pop")) <=
                   IF DrainDepth >= 0 THEN DrainDepth ELSE 0
            /\ DrainDepth <= 0 => ENABLED DoReturn /\ ~ENABLED PopStack)
    /\ [](pc = "done" =>
            /\ Len(KindVals(DrainPart, "pop")) =
                   IF DrainDepth >= 0 THEN DrainDepth ELSE 0
            /\ returned = retval)
    /\ (pc = "return_block") ~> (pc = "done")

\* The function returned from a stack pointer below the stack bottom, left
\* there by a pop on the empty stack, without a pop in the return block.
C34_Witness ==
    /\ pc = "done"
    /\ DrainDepth < 0
    /\ sp = StackBottom - 1
    /\ DrainPart = <<>>
    /\ KindVals(RulePart, "pop") # <<>>

\* The instructions of Return(retval).
StoreRetval == [k |-> "op", what |-> "store retval", to |-> <<>>]
BrReturnBlock == [k |-> "br", what |-> "", to |-> <<return_block_>>]

\* C35: wherever the function built so far enters the return block, it does
\* so by an unconditional branch that directly follows a store to the return
\* slot in the same block; every store to the return slot is directly
\* followed by that branch; and the return slot is loaded in do_return only,
\* which nothing but the return block's loop leads to.
C35_ReturnSlotStored ==
    \A i \in DOMAIN blocks :
        LET ins == blocks[i].ins
        IN  \A j \in DOMAIN ins :
                /\ (\E n \in DOMAIN ins[j].to : ins[j].to[n] = return_block_)
                       => /\ ins[j] = BrReturnBlock
                          /\ j > 1 /\ ins[j - 1] = StoreRetval
                /\ ins[j] = StoreRetval
                       => j < Len(ins) /\ ins[j + 1] = BrReturnBlock
                /\ (ins[j].k = "op" /\ ins[j].what = "retval")
                       => blocks[i].name = "do_return"
                /\ (\E n \in DOMAIN ins[j].to :
                        blocks[ins[j].to[n]].name = "do_return")
                       => blocks[i].name = "pop_loop"

\* A function of a binary operation and a return: the failure block of the
\* first and the block of the second each store and then branch.
C35_Witness ==
    /\ pc = "lowered"
    /\ lastOp.op = "RETURN_VALUE"
    /\ \E i \in DOMAIN blocks :
           /\ blocks[i].name = "binop_failure"
           /\ blocks[i].ins = <<StoreRetval, BrReturnBlock>>
    /\ Cardinality({i \in DOMAIN blocks :
                       \E j \in DOMAIN blocks[i].ins :
                           blocks[i].ins[j] = StoreRetval}) = 2

\* C36: SetLocal stores the new value in the local slot before it releases
\* the previous occupant: the store precedes the release and the
\* deallocation it may start, only the previous occupant is released, and an
\* occupant that was deallocated is not what the slot holds.
C36_StoreBeforeRelease ==
    [][RuleStep /\ lastOp'.op \in {"STORE_FAST", "DELETE_FAST"} =>
         LET t == trace'
             j == lastOp'.arg
             prior == locals[j]
             stored == IF lastOp'.op = "STORE_FAST" THEN mem[sp - 1] ELSE Null
         IN  /\ Cardinality(At(t, "setlocal")) = 1
             /\ Cardinality(At(t, "xdecref")) = 1
             /\ \A i \in At(t, "setlocal") :
                    /\ t[i].v = stored
                    /\ \A n \in At(t, "xdecref") \cup At(t, "decref")
                                  \cup At(t, "dealloc") : i < n
             /\ \A n \in At(t, "xdecref") \cup At(t, "decref") : t[n].v = prior
             /\ \A n \in At(t, "dealloc") :
                    t[n].v = prior /\ locals'[j] # t[n].v
      ]_vars

\* STORE_FAST overwrote a local whose last reference the slot held: the
\* occupant was deallocated after the slot had changed.
C36_Witness ==
    /\ lastOp.op = "STORE_FAST"
    /\ At(trace, "dealloc") # {}
    /\ locals[lastOp.arg] # Null
    /\ locals[lastOp.arg] # entry.locals[lastOp.arg]
    /\ refcnt[entry.locals[lastOp.arg]] = 0

\* C37: STORE_MAP pops the key, the value and the dictionary, pushes the
\* dictionary back and only then calls PyDict_SetItem(dict, key, value); it
\* releases the key and the value once each and the dictionary not at all.
\* On success the stack is two entries shorter with the dictionary on top; on
\* failure the error return is taken with the dictionary still on the stack.
C37_StoreMap ==
    [][RuleStep /\ lastOp'.op = "STORE_MAP" =>
         LET t == trace'
             key == mem[sp - 1]
             value == mem[sp - 2]
             dict == mem[sp - 3]
             call == Calls(t, "PyDict_SetItem")
         IN  /\ KindVals(t, "pop") = <<key, value, dict>>
             /\ KindVals(t, "push") = <<dict>>
             /\ Len(call) = 1 /\ Cardinality(At(t, "call")) = 1
             /\ call[1].args = <<dict, key, value>>
             /\ \A i \in At(t, "push") : \A j \in At(t, "call") : i < j
             /\ Releases(t, <<key, value>>)
             /\ \A i \in At(t, "decref") : \A j \in At(t, "call") : j < i
             /\ KindVals(t, "incref") = <<>>
             /\ refcnt'[dict] =
                    refcnt[dict] - Times(<<key, value>>, dict)
             /\ sp' = sp - 2
             /\ mem'[sp' - 1] = dict
             /\ IF call[1].res = 0
                THEN pc' = "run" /\ At(t, "ret") = {}
                ELSE /\ pc' = "return_block" /\ retval' = Null
                     /\ \A i \in At(t, "ret") : t[i].at = sp - 2
      ]_vars

\* STORE_MAP failed: the error return was taken with the dictionary, which
\* is neither the key nor the value, on top of the stack and as often
\* referenced as before.
C37_Witness ==
    /\ lastOp.op = "STORE_MAP"
    /\ pc = "return_block"
    /\ sp = Len(entry.stack) - 2
    /\ mem[sp - 1] = entry.stack[Len(entry.stack) - 2]
    /\ mem[sp - 1] \notin {entry.stack[Len(entry.stack)],
                           entry.stack[Len(entry.stack) - 1]}
    /\ refcnt[mem[sp - 1]] = entry.refcnt[mem[sp - 1]]
    /\ Len(KindVals(trace, "decref")) = 2

\* C38: UNARY_NOT pops its operand, calls PyObject_IsTrue on it once and
\* releases it once whatever the answer; a negative answer takes the error
\* return with nothing pushed or acquired; a positive answer pushes False and
\* a zero answer pushes True, the pushed singleton acquired once.
C38_UnaryNot ==
    [][RuleStep /\ lastOp'.op = "UNARY_NOT" =>
         LET t == trace'
             value == mem[sp - 1]
             call == Calls(t, "PyObject_IsTrue")
             boxed == IF call[1].res > 0 THEN PyFalse ELSE PyTrue
         IN  /\ KindVals(t, "pop") = <<value>>
             /\ Len(call) = 1 /\ Cardinality(At(t, "call")) = 1
             /\ call[1].args = <<value>>
             /\ KindVals(t, "decref") = <<value>>
             /\ \A i \in At(t, "decref") : \A j \in At(t, "call") : j < i
             /\ IF call[1].res < 0
                THEN /\ pc' = "return_block" /\ retval' = Null
                     /\ KindVals(t, "push") = <<>>
                     /\ KindVals(t, "incref") = <<>>
                     /\ sp' = sp - 1
                ELSE /\ pc' = "run" /\ At(t, "ret") = {}
                     /\ KindVals(t, "push") = <<boxed>>
                     /\ KindVals(t, "incref") = <<boxed>>
                     /\ \A i \in At(t, "incref") : \A j \in At(t, "push") : i < j
                     /\ sp' = sp /\ mem'[sp' - 1] = boxed
      ]_vars

\* UNARY_NOT of an object that is true and is no singleton left False on the
\* stack, referenced once more than before.
C38_Witness ==
    /\ lastOp.op = "UNARY_NOT"
    /\ pc = "run"
    /\ Calls(trace, "PyObject_IsTrue")[1].res = 2
    /\ mem[sp - 1] = PyFalse
    /\ entry.stack[Len(entry.stack)] \notin {PyTrue, PyFalse}
    /\ refcnt[PyFalse] = entry.refcnt[PyFalse] + 1

\* ------------------------------------------ reference counts and threads
\* Threads run IncRef and DecRef on shared objects.  The emitted code of an
\* update is three instructions, load, add and store, none of them atomic
\* and with no lock around them, so the threads' instructions interleave in
\* any order.  orig and new_ are values of the thread that runs the update;
\* at is the length of the trace when it loaded.
Threads == 1..NumThreads
Shared == {NumObjs - 1, NumObjs}
Idle == [at |-> "idle", obj |-> Null, delta |-> 0, orig |-> 0, new_ |-> 0,
         since |-> 0]

InitThreads ==
    /\ code = <<>>
    /\ pc = "threads"
    /\ refdebug = FALSE
    /\ mem = [i \in Slots |-> Null]
    /\ sp = StackBottom
    /\ locals = [i \in LocalIdx |-> Null]
    /\ refcnt = [o \in Objects |-> MaxRef]
    /\ entry = [stack |-> <<>>, locals |-> locals, refcnt |-> refcnt]
    /\ reftotal = 0
    /\ retval = Uninit
    /\ returned = Uninit
    /\ trace = <<>>
    /\ lastOp = [op |-> "entry", arg |-> 0]
    /\ nsteps = 0
    /\ ip = 1
    /\ blocks = LlvmFunctionBuilder(refdebug).blocks
    /\ cur = LlvmFunctionBuilder(refdebug).cur
    /\ StringOffset = <<>>
    /\ AggregateString = <<>>
    /\ typeNames = <<>>
    /\ threads = [t \in Threads |-> Idle]

ThreadStep(op, t) ==
    /\ lastOp' = [op |-> op, arg |-> t]
    /\ UNCHANGED <<mem, sp, locals, reftotal, refdebug, retval, pc, returned,
                   code, ip, entry, blocks, cur, StringOffset,
                   AggregateString, typeNames>>

\* Value *orig = builder.CreateLoad(addr), in IncRef (delta 1) or DecRef
\* (delta -1) of object o.
Thr_Load ==
    \E t \in Threads, o \in Shared, delta \in {1, -1} :
        /\ pc = "threads" /\ nsteps < MaxUpdates
        /\ threads[t].at = "idle"
        /\ threads' = [threads EXCEPT ![t] =
               [at |-> "loaded", obj |-> o, delta |-> delta,
                orig |-> refcnt[o], new_ |-> 0, since |-> Len(trace)]]
        /\ nsteps' = nsteps + 1
        /\ UNCHANGED <<refcnt, trace>>
        /\ ThreadStep("load", t)

\* Value *new_ = builder.CreateAdd(orig, delta)
Thr_Add ==
    \E t \in Threads :
        /\ threads[t].at = "loaded"
        /\ threads' = [threads EXCEPT
               ![t].at = "added",
               ![t].new_ = increment_and_get(threads[t].orig, threads[t].delta)]
        /\ UNCHANGED <<refcnt, trace, nsteps>>
        /\ ThreadStep("add", t)

\* A store that writes back the value the thread loaded.
Thr_Store_writes_orig ==
    \E t \in Threads :
        /\ threads[t].at = "added"
        /\ refcnt' = [refcnt EXCEPT ![threads[t].obj] = threads[t].orig]
        /\ trace' = Append(trace,
               [k |-> IF threads[t].delta = 1 THEN "incref" ELSE "decref",
                v |-> threads[t].obj, t |-> t, since |-> threads[t].since])
        /\ threads' = [threads EXCEPT ![t] = Idle]
        /\ UNCHANGED nsteps
        /\ ThreadStep("store", t)

\* builder.CreateStore(new_, addr)
Thr_Store ==
    \E t \in Threads :
        /\ threads[t].at = "added"
        /\ refcnt' = [refcnt EXCEPT ![threads[t].obj] = threads[t].new_]
        /\ trace' = Append(trace,
               [k |-> IF threads[t].delta = 1 THEN "incref" ELSE "decref",
                v |-> threads[t].obj, t |-> t, since |-> threads[t].since])
        /\ threads' = [threads EXCEPT ![t] = Idle]
        /\ UNCHANGED nsteps
        /\ ThreadStep("store", t)

NextThreads == Thr_Load \/ Thr_Add \/ Thr_Store

SpecThreads == InitThreads /\ [][NextThreads]_vars

\* No thread is in the middle of an update.
Quiescent == \A t \in Threads : threads[t].at = "idle"

\* initial + acquires - releases of object o.
Expected(o) ==
    entry.refcnt[o] + Times(KindVals(trace, "incref"), o)
                    - Times(KindVals(trace, "decref"), o)

\* Two updates of object o ran concurrently: each had loaded before the
\* other stored.
Concurrent(o) ==
    \E i, j \in DOMAIN trace :
        /\ i # j /\ trace[i].v = o /\ trace[j].v = o
        /\ trace[i].t # trace[j].t
        /\ trace[i].since < j /\ trace[j].since < i

\* C39: an update of a reference count is a load, an add and a store that
\* other threads' instructions may come between.  When the updates are over,
\* the count of an object no two updates of which ran concurrently is its
\* initial count plus the acquires minus the releases; so it is for every
\* object when one thread made all the updates.  (The witness is the lost
\* update of two concurrent ones.)
C39_ExactUnlessConcurrent ==
    Quiescent =>
        /\ \A o \in Objects : ~Concurrent(o) => refcnt[o] = Expected(o)
        /\ Cardinality({trace[i].t : i \in DOMAIN trace}) <= 1
               => \A o \in Objects : refcnt[o] = Expected(o)

\* Two threads acquired the same object concurrently and one acquire was
\* lost: the count is one more than at first, not two.
C39_Witness ==
    /\ Quiescent
    /\ \E o \in Shared :
           /\ KindVals(trace, "incref") = <<o, o>>
           /\ trace[1].t # trace[2].t
           /\ refcnt[o] = entry.refcnt[o] + 1
           /\ refcnt[o] # Expected(o)

====
